---- MODULE Spec2Model ----
(***************************************************************************)
(* The local sample-test pipeline of the OJ assistant extension            *)
(* (handleRunSampleTest, runSampleTest, runPythonSample, runJavaSample,    *)
(* detectJavaEntryPoint, runProcess, normalizeProgramOutput).              *)
(*                                                                         *)
(* Strings are sequences of one-character strings.  The user-visible error *)
(* texts of the source are Chinese literals; the model keeps each one as a *)
(* single ASCII token (MsgNoFilePath, ...), so that a message is a         *)
(* sequence of tokens and characters and string concatenation is \o.       *)
(* undefined / null are None, a present value v is Some(v).                *)
(***************************************************************************)
EXTENDS Integers, Sequences, FiniteSets, TLC

None == [some |-> FALSE]
Some(v) == [some |-> TRUE, val |-> v]
\* null, where the code tells it from undefined (None)
Null == [some |-> FALSE, isNull |-> TRUE]

\* ------------------------------------------------------------------ bounds
\* longest standard output a child process writes before it closes
MaxOut == 2
\* longest standard error a child process writes before it closes
MaxErr == 1

\* characters the child processes write
OutChars == {"a", "\n", "\r"}

\* ------------------------------------------------------------ pure helpers
\* ECMAScript WhiteSpace and LineTerminator, the characters trim and trimEnd
\* remove; a character outside the printable ASCII ones is written as its
\* code point
IsWhitespace(c) ==
    c \in {" ", "\t", "\n", "\r", "\f", "U+000B", "U+00A0", "U+FEFF",
           "U+2028", "U+2029", "U+1680", "U+2000", "U+2001", "U+2002",
           "U+2003", "U+2004", "U+2005", "U+2006", "U+2007", "U+2008",
           "U+2009", "U+200A", "U+202F", "U+205F", "U+3000"}

RECURSIVE ReplaceCRLF(_)
\* value.replace(/\r\n/g, '\n')
ReplaceCRLF(s) ==
    IF Len(s) = 0 THEN <<>>
    ELSE IF Len(s) >= 2 /\ s[1] = "\r" /\ s[2] = "\n"
         THEN <<"\n">> \o ReplaceCRLF(SubSeq(s, 3, Len(s)))
         ELSE <<s[1]>> \o ReplaceCRLF(Tail(s))

\* .replace(/\r/g, '\n')
\* faulty variant: a lone CR is left as it is
ReplaceCR_Identity(s) == s

ReplaceCR(s) == [i \in 1..Len(s) |-> IF s[i] = "\r" THEN "\n" ELSE s[i]]

\* faulty variant: one trailing white space character is removed, as by
\* replace(/\s$/, '')
TrimEnd_One(s) ==
    IF Len(s) > 0 /\ IsWhitespace(s[Len(s)]) THEN SubSeq(s, 1, Len(s) - 1) ELSE s

\* faulty variant: both ends are trimmed, as by trim()
TrimEnd_BothEnds(s) ==
    LET first == {i \in 1..Len(s) : ~IsWhitespace(s[i])}
    IN  IF first = {} THEN <<>>
        ELSE SubSeq(s, CHOOSE i \in first : \A j \in first : i <= j,
                       CHOOSE i \in first : \A j \in first : j <= i)

RECURSIVE TrimEnd(_)
\* String.prototype.trimEnd
TrimEnd(s) ==
    IF Len(s) > 0 /\ IsWhitespace(s[Len(s)])
    THEN TrimEnd(SubSeq(s, 1, Len(s) - 1))
    ELSE s

RECURSIVE TrimStart(_)
\* the leading half of String.prototype.trim
TrimStart(s) ==
    IF Len(s) > 0 /\ IsWhitespace(s[1]) THEN TrimStart(Tail(s)) ELSE s

\* String.prototype.trim
Trim(s) == TrimStart(TrimEnd(s))

\* normalizeProgramOutput(value)
normalizeProgramOutput(value) == TrimEnd(ReplaceCR(ReplaceCRLF(value)))

\* a || b on strings: the first operand unless it is the empty string
OrElse(a, b) == IF Len(a) > 0 THEN a ELSE b

\* path.isAbsolute on a POSIX host
IsAbsolute(p) == Len(p) > 0 /\ p[1] = "/"

\* ------------------------------------------------------------ error texts
MsgNoFilePath == <<"ERR:please-specify-the-code-file-path">>
MsgNoSampleInput == <<"ERR:problem-has-no-sample-input">>
MsgNeedAbsolute == <<"ERR:give-absolute-path-or-open-a-workspace">>
MsgFileMissing == <<"ERR:code-file-does-not-exist">>
MsgNoPublicClass == <<"ERR:cannot-identify-java-main-class">>
MsgNoMainMethod == <<"ERR:no-public-static-void-main-found">>
MsgStatDenied == <<"NoPermissions">>
MsgReadIsDirectory == <<"EISDIR">>
MsgMkdtempFailed == <<"mkdtemp-failed">>
MsgUnknownCompileError == <<"unknown-compile-error">>
CompilePrefix == <<"Java-compile-failed:", "\n">>
MsgUnsupported(language) == <<"not-yet-supported:", language, ":quick-test">>
\* the message of the error a failed spawn emits ("spawn <cmd> ENOENT")
MsgSpawn(command) == <<"spawn", command, "ENOENT">>

\* path.dirname on a POSIX path: trailing slashes are ignored, the cut is at
\* the last slash that a name follows (the first character apart), and a
\* root of two slashes is kept
Dirname(p) ==
    LET hasRoot == Len(p) > 0 /\ p[1] = "/"
        cuts == {i \in 2..Len(p) :
                    p[i] = "/" /\ \E j \in (i + 1)..Len(p) : p[j] # "/"}
        end == CHOOSE i \in cuts : \A j \in cuts : j <= i
    IN  IF Len(p) = 0 THEN <<".">>
        ELSE IF cuts = {} THEN (IF hasRoot THEN <<"/">> ELSE <<".">>)
        ELSE IF hasRoot /\ end = 2 THEN <<"/", "/">>
        ELSE SubSeq(p, 1, end - 1)

\* the first workspace folder, when one is open
WorkspaceRoot == <<"/", "w">>

\* a one-token string literal of the source
Str(t) == <<t>>

\* ------------------------------------------------------------------ inputs
Languages == {"python", "java", "cpp"}
FilePaths == {<<>>, <<"s">>, <<"/", "s">>}
SampleInputs == {<<>>, <<"5">>, <<"5", "\n">>}
ExpectedOutputs == {None, Null, Some(<<>>), Some(<<"a">>), Some(<<"a", "\n">>)}
\* what the file system holds at the resolved path; "denied" makes stat fail
\* with an error other than FileNotFound
FileKinds == {"missing", "file", "dir", "denied"}
\* what the three patterns of detectJavaEntryPoint find in the file's text
Sources == [packageName : {None, Some(<<"p">>)},
            publicClass : {None, Some(<<"Main">>)},
            mainMethod : BOOLEAN]
PlainSource == [packageName |-> None, publicClass |-> None, mainMethod |-> FALSE]
\* exit codes a terminating child reports; None is the null of a signal death
ExitCodes == {Some(0), Some(1), None}
\* names mkdtemp hands out, in the order it uses them
TempNames == <<"oj-assistant-java-1", "oj-assistant-java-2",
               "oj-assistant-java-3", "oj-assistant-java-4">>

\* ------------------------------------------------------------------- state
VARIABLES
    req,              \* the runSampleTest message payload
    workspaceFolder,  \* whether vscode.workspace.workspaceFolders[0] exists
    fileKind,         \* the file system entry at the resolved path
    source,           \* the text of the source file, as the patterns see it
    pc,               \* where handleRunSampleTest is suspended
    entryPoint,       \* runJavaSample's entryPoint
    tempDir,          \* runJavaSample's tempDir
    tmpdirs,          \* the temporary directories that exist
    child,            \* the child process of the runProcess call in flight
    promise,          \* the promise runProcess returned
    pending,          \* the completion of the try block, held by finally
    posted,           \* messages posted to the webview
    events,           \* history: spawn, error, close, mkdtemp, rm, post
    calc,             \* a call of a pure function: its input and its result
    conc              \* the requests in flight when handlers interleave

vars == <<req, workspaceFolder, fileKind, source, pc, entryPoint, tempDir,
          tmpdirs, child, promise, pending, posted, events, calc, conc>>

\* what no step of a single request's pipeline changes: its arguments, the
\* file system entry of the source, and the state of the other developments
envVars == <<req, workspaceFolder, fileKind, source, calc, conc>>

\* no pure function is being called
CalcIdle == [op |-> "idle"]

\* no interleaved requests are modelled
ConcIdle == [op |-> "idle"]

NoPromise == [state |-> "none"]
\* faulty variant: a timer rejects the promise while the child is running
Pending_TimedOut == [state |-> "rejected", error |-> <<"timeout">>]

Pending == [state |-> "pending"]
Resolved(v) == [state |-> "resolved", value |-> v]
Rejected(e) == [state |-> "rejected", error |-> e]

Return(v) == [ok |-> TRUE, value |-> v]
Throw(e) == [ok |-> FALSE, error |-> e]

Init ==
    /\ req \in [language : Languages, filePath : FilePaths,
                sampleInput : SampleInputs, expectedOutput : ExpectedOutputs]
    /\ workspaceFolder \in BOOLEAN
    /\ IsAbsolute(req.filePath) => workspaceFolder
    /\ fileKind \in FileKinds
    /\ source \in Sources
    /\ (req.language # "java" \/ fileKind # "file") => source = PlainSource
    /\ pc = "start"
    /\ entryPoint = None
    /\ tempDir = None
    /\ tmpdirs = {}
    /\ child = None
    /\ promise = NoPromise
    /\ pending = None
    /\ posted = <<>>
    /\ events = <<>>
    /\ calc = CalcIdle
    /\ conc = ConcIdle

\* ------------------------------------------------- the code's small steps
\* resolveFileUri(filePath).fsPath, for a path resolveFileUri accepts
resolveFileUri(filePath) ==
    IF IsAbsolute(filePath) THEN filePath
    ELSE WorkspaceRoot \o <<"/">> \o filePath

\* message.payload.expectedOutput ?? undefined
NullishToUndefined(v) == IF v = Null THEN None ELSE v

\* expectedOutput ?? null
NullishToNull(v) == IF v = None THEN Null ELSE v

\* the expectedOutput argument handleMessage passes to handleRunSampleTest
expectedOutput == NullishToUndefined(req.expectedOutput)

\* getConfiguration('ojAssistant').get('pythonPath', 'python'), default setting
PythonPath == "python"

\* getJavaExecutables() with no configured path and no JAVA_HOME / JDK_HOME
JavaExecutables == [java |-> "java", javac |-> "javac"]

\* faulty variant: the input is written as it is, without the final newline
StdinWrites_AsIs(input) == IF Len(input) > 0 THEN <<input>> ELSE <<>>

\* what runProcess writes to the child's stdin before it ends it
StdinWrites(input) ==
    IF Len(input) > 0
    THEN <<IF input[Len(input)] = "\n" THEN input ELSE input \o <<"\n">>>>
    ELSE <<>>

\* the calls runProcess makes on child.stdin, in their order
StdinOps(input) ==
    [i \in 1..Len(StdinWrites(input)) |->
        [op |-> "write", data |-> StdinWrites(input)[i]]] \o <<[op |-> "end"]>>

\* the child spawn() returns, with runProcess's two buffers
NewChild(command, args, input, cwd, started) ==
    [command |-> command, args |-> args, cwd |-> cwd, input |-> input,
     started |-> started,
     stdout |-> <<>>, stderr |-> <<>>,
     stdinWrites |-> StdinWrites(input), stdinEnded |-> TRUE,
     stdin |-> StdinOps(input),
     errorEmitted |-> FALSE, closed |-> FALSE]

\* runProcess up to the return of its promise; the operating system either
\* starts the executable or does not
runProcess(command, args, input, cwd, evs) ==
    \E started \in BOOLEAN :
        /\ child' = NewChild(command, args, input, cwd, started)
        /\ promise' = Pending
        /\ events' = Append(evs, [type |-> "spawn", command |-> command,
                                  started |-> started])

\* faulty variant: the strings are compared as they are, without normalization
ComputeMatched_Raw(stdout, expected) ==
    IF expected = None THEN None ELSE Some(stdout = expected.val)

\* faulty variant: the comparison is made even when nothing is expected
ComputeMatched_NoUndefinedCheck(stdout, expected) ==
    IF expected = None THEN Some(FALSE)
    ELSE Some(normalizeProgramOutput(stdout)
                = normalizeProgramOutput(expected.val))

\* matched, as runPythonSample and runJavaSample compute it
ComputeMatched(stdout, expected) ==
    IF expected = None THEN None
    ELSE Some(normalizeProgramOutput(stdout)
                = normalizeProgramOutput(expected.val))

\* faulty variant: the normalized stdout is returned in place of the raw one
SampleResult_NormalizedStdout(result, expected) ==
    [stdout |-> normalizeProgramOutput(result.stdout), stderr |-> result.stderr,
     exitCode |-> result.exitCode,
     matched |-> ComputeMatched(result.stdout, expected)]

\* the object runPythonSample and runJavaSample return
SampleResult(result, expected) ==
    [stdout |-> result.stdout, stderr |-> result.stderr,
     exitCode |-> result.exitCode,
     matched |-> ComputeMatched(result.stdout, expected)]

\* faulty variant: only a reported non-zero code counts as a failed compilation
CompileFailed_NullPasses(result) ==
    result.exitCode # None /\ result.exitCode # Some(0)

\* compileResult.exitCode !== 0
CompileFailed(result) == result.exitCode # Some(0)

\* the message of the error runJavaSample throws for a failed compilation
CompileErrorMessage(result) ==
    CompilePrefix
      \o OrElse(Trim(OrElse(OrElse(result.stderr, result.stdout), <<>>)),
                MsgUnknownCompileError)

\* faulty variant: the package is left out of the class name
ClassName_NoPackage(ep) == ep.mainClass

\* the class name handed to the runtime
ClassName(ep) ==
    IF ep.packageName # None
    THEN ep.packageName.val \o <<".">> \o ep.mainClass
    ELSE ep.mainClass

\* the sampleTestResult message handleRunSampleTest posts for a completion
\* of the request it was called with
ResultMessageOf(request, outcome) ==
    IF outcome.ok
    THEN [type |-> "sampleTestResult", ok |-> TRUE,
          language |-> request.language, filePath |-> request.filePath,
          stdout |-> outcome.value.stdout, stderr |-> outcome.value.stderr,
          exitCode |-> outcome.value.exitCode,
          matched |-> outcome.value.matched,
          expectedOutput |->
              NullishToNull(NullishToUndefined(request.expectedOutput))]
    ELSE [type |-> "sampleTestResult", ok |-> FALSE,
          language |-> request.language, filePath |-> request.filePath,
          error |-> outcome.error]

\* the message of the one request of the pipeline
ResultMessage(outcome) == ResultMessageOf(req, outcome)

\* faulty variant: the error is posted by the catch and, rethrown, once more
\* by the catch of handleMessage
Post_ErrorTwice(outcome, evs) ==
    /\ posted' = posted \o (IF outcome.ok
                             THEN <<ResultMessage(outcome)>>
                             ELSE <<ResultMessage(outcome), ResultMessage(outcome)>>)
    /\ events' = Append(evs, [type |-> "post"])
    /\ pc' = "done"

\* the end of handleRunSampleTest: one message, from the try or the catch
Post(outcome, evs) ==
    /\ posted' = Append(posted, ResultMessage(outcome))
    /\ events' = Append(evs, [type |-> "post"])
    /\ pc' = "done"

\* a continuation of an awaited runProcess is a microtask: it runs before
\* any further event of the child is delivered
ContinuationReady ==
    /\ pc \in {"py_run", "java_compile", "java_run"}
    /\ promise.state \in {"resolved", "rejected"}

\* fileExists(uri): true, false, or the rethrown error of stat
fileExists(kind) ==
    CASE kind = "missing" -> Return(FALSE)
      [] kind = "denied" -> Throw(MsgStatDenied)
      [] OTHER -> Return(TRUE)

\* faulty variant: the entry method is not looked for
detectJavaEntryPoint_NoMainCheck(kind, text) ==
    IF kind # "file" THEN Throw(MsgReadIsDirectory)
    ELSE IF text.publicClass = None THEN Throw(MsgNoPublicClass)
    ELSE Return([mainClass |-> text.publicClass.val,
                 packageName |-> text.packageName])

\* faulty variant: the entry method is looked for before the class
detectJavaEntryPoint_MainFirst(kind, text) ==
    IF kind # "file" THEN Throw(MsgReadIsDirectory)
    ELSE IF ~text.mainMethod THEN Throw(MsgNoMainMethod)
    ELSE IF text.publicClass = None THEN Throw(MsgNoPublicClass)
    ELSE Return([mainClass |-> text.publicClass.val,
                 packageName |-> text.packageName])

\* detectJavaEntryPoint(filePath), once readFile has answered
detectJavaEntryPoint(kind, text) ==
    IF kind # "file" THEN Throw(MsgReadIsDirectory)
    ELSE IF text.publicClass = None THEN Throw(MsgNoPublicClass)
    ELSE IF ~text.mainMethod THEN Throw(MsgNoMainMethod)
    ELSE Return([mainClass |-> text.publicClass.val,
                 packageName |-> text.packageName])

\* faulty variant: a fixed directory name in place of mkdtemp's unique one
FreshTempDir_FixedName == <<"/tmp/", TempNames[1]>>

\* the directory mkdtemp creates: the first name not in use
FreshTempDir ==
    LET free == {i \in 1..Len(TempNames) : <<"/tmp/", TempNames[i]>> \notin tmpdirs}
    IN  <<"/tmp/", TempNames[CHOOSE i \in free : \A j \in free : i <= j]>>

\* faulty variant: the cleanup sits at the end of the try block, not in a finally,
\* so that a thrown error leaves runJavaSample at once
Finally_SkipOnThrow(outcome, evs) ==
    IF outcome.ok
    THEN /\ pending' = Some(outcome)
         /\ pc' = "java_rm"
         /\ events' = evs
         /\ UNCHANGED posted
    ELSE /\ Post(outcome, evs)
         /\ UNCHANGED pending

\* the finally clause of runJavaSample takes over every completion of the try
Finally(outcome, evs) ==
    /\ pending' = Some(outcome)
    /\ pc' = "java_rm"
    /\ events' = evs
    /\ UNCHANGED posted

\* runPythonSample up to its await of runProcess
runPythonSample ==
    /\ runProcess(PythonPath, <<resolveFileUri(req.filePath)>>, req.sampleInput,
                  Dirname(resolveFileUri(req.filePath)), events)
    /\ pc' = "py_run"
    /\ UNCHANGED posted

\* faulty variant: the default branch falls back to the interpreter
runSampleTest_DefaultPython ==
    CASE req.language = "java" ->
            /\ pc' = "java_read"
            /\ UNCHANGED <<child, promise, posted, events>>
      [] OTHER -> runPythonSample

\* runSampleTest: the switch on the language; runJavaSample starts with the
\* read of the source file
runSampleTest ==
    CASE req.language = "python" -> runPythonSample
      [] req.language = "java" ->
            /\ pc' = "java_read"
            /\ UNCHANGED <<child, promise, posted, events>>
      [] OTHER ->
            /\ Post(Throw(MsgUnsupported(req.language)), events)
            /\ UNCHANGED <<child, promise>>

\* --------------------------------------------------------------- actions
\* faulty variant: the language is looked at before the request is validated
HandleRunSampleTest_LanguageFirst ==
    /\ pc = "start"
    /\ IF req.language \notin {"python", "java"}
       THEN Post(Throw(MsgUnsupported(req.language)), events)
       ELSE IF Len(req.filePath) = 0
       THEN Post(Throw(MsgNoFilePath), events)
       ELSE IF Len(req.sampleInput) = 0
       THEN Post(Throw(MsgNoSampleInput), events)
       ELSE IF ~IsAbsolute(req.filePath) /\ ~workspaceFolder
       THEN Post(Throw(MsgNeedAbsolute), events)
       ELSE pc' = "stat" /\ UNCHANGED <<posted, events>>
    /\ UNCHANGED <<envVars, entryPoint, tempDir, tmpdirs, child, promise, pending>>

\* handleRunSampleTest from its entry to the await of the stat
HandleRunSampleTest ==
    /\ pc = "start"
    /\ IF Len(req.filePath) = 0
       THEN Post(Throw(MsgNoFilePath), events)
       ELSE IF Len(req.sampleInput) = 0
       THEN Post(Throw(MsgNoSampleInput), events)
       ELSE IF ~IsAbsolute(req.filePath) /\ ~workspaceFolder
       THEN Post(Throw(MsgNeedAbsolute), events)
       ELSE pc' = "stat" /\ UNCHANGED <<posted, events>>
    /\ UNCHANGED <<envVars, entryPoint, tempDir, tmpdirs, child, promise, pending>>

\* the stat answers: the existence check, then the dispatch on the language
StatDone ==
    /\ pc = "stat"
    /\ LET exists == fileExists(fileKind)
       IN  IF ~exists.ok
           THEN Post(exists, events) /\ UNCHANGED <<child, promise>>
           ELSE IF ~exists.value
           THEN Post(Throw(MsgFileMissing), events) /\ UNCHANGED <<child, promise>>
           ELSE runSampleTest
    /\ UNCHANGED <<envVars, entryPoint, tempDir, tmpdirs, pending>>

\* readFile answers: entry-point detection, then the await of mkdtemp
ReadFileDone ==
    /\ pc = "java_read"
    /\ LET found == detectJavaEntryPoint(fileKind, source)
       IN  IF found.ok
           THEN /\ entryPoint' = Some(found.value)
                /\ pc' = "java_mkdtemp"
                /\ UNCHANGED <<posted, events>>
           ELSE /\ Post(found, events)
                /\ UNCHANGED entryPoint
    /\ UNCHANGED <<envVars, tempDir, tmpdirs, child, promise, pending>>

\* mkdtemp answers: the workspace exists, and the compiler is launched
MkdtempDone ==
    /\ pc = "java_mkdtemp"
    /\ \E created \in BOOLEAN :
        IF created
        THEN /\ tempDir' = Some(FreshTempDir)
             /\ tmpdirs' = tmpdirs \cup {FreshTempDir}
             /\ runProcess(JavaExecutables.javac,
                           <<Str("-encoding"), Str("UTF-8"), Str("-d"), FreshTempDir,
                             resolveFileUri(req.filePath)>>,
                           <<>>, Dirname(resolveFileUri(req.filePath)),
                           Append(events, [type |-> "mkdtemp", dir |-> FreshTempDir]))
             /\ pc' = "java_compile"
             /\ UNCHANGED posted
        ELSE /\ Post(Throw(MsgMkdtempFailed), events)
             /\ UNCHANGED <<tempDir, tmpdirs, child, promise>>
    /\ UNCHANGED <<envVars, entryPoint, pending>>

\* faulty variant: a launch failure is resolved like a death without exit code
OnError_ResolveNull(error) ==
    Resolved([stdout |-> child.stdout, stderr |-> child.stderr, exitCode |-> None])

\* faulty variant: a non-zero exit code is turned into a failure
OnClose_RejectNonZero(code) ==
    IF code = Some(0)
    THEN Resolved([stdout |-> child.stdout, stderr |-> child.stderr,
                   exitCode |-> code])
    ELSE Rejected(<<"exit">>)

\* the 'error' listener: reject(error)
OnError(error) == Rejected(error)

\* the 'close' listener: resolve({ stdout, stderr, exitCode: code })
OnClose(code) ==
    Resolved([stdout |-> child.stdout, stderr |-> child.stderr, exitCode |-> code])

\* the bytes of a two-byte UTF-8 character, the character itself, and the
\* replacement character a decoder puts for bytes that are no character
LeadByte == "0xC3"
ContByte == "0xA9"
TwoByteChar == "U+00E9"
ReplacementChar == "U+FFFD"

\* data.toString(): the UTF-8 decoding of one chunk; an ASCII byte is written
\* as its character
RECURSIVE BufferToString(_)

BufferToString(bytes) ==
    IF bytes = <<>> THEN <<>>
    ELSE IF bytes[1] = LeadByte /\ Len(bytes) >= 2 /\ bytes[2] = ContByte
    THEN <<TwoByteChar>> \o BufferToString(SubSeq(bytes, 3, Len(bytes)))
    ELSE IF bytes[1] \in {LeadByte, ContByte}
    THEN <<ReplacementChar>> \o BufferToString(Tail(bytes))
    ELSE <<bytes[1]>> \o BufferToString(Tail(bytes))

\* faulty variant: the last call of resolve or reject decides
Settle_LastWins(settled) == settled

\* resolve and reject settle a promise once: later calls change nothing
Settle(settled) == IF promise.state = "pending" THEN settled ELSE promise

\* child.stdout 'data'
ChildStdoutData(data) ==
    /\ child # None /\ child.started /\ ~child.closed
    /\ ~ContinuationReady
    /\ Len(child.stdout) < MaxOut
    /\ child' = [child EXCEPT !.stdout = @ \o BufferToString(<<data>>)]
    /\ UNCHANGED <<envVars, pc, entryPoint, tempDir, tmpdirs, promise, pending,
                   posted, events>>

\* child.stderr 'data'
ChildStderrData(data) ==
    /\ child # None /\ child.started /\ ~child.closed
    /\ ~ContinuationReady
    /\ Len(child.stderr) < MaxErr
    /\ child' = [child EXCEPT !.stderr = @ \o BufferToString(<<data>>)]
    /\ UNCHANGED <<envVars, pc, entryPoint, tempDir, tmpdirs, promise, pending,
                   posted, events>>

\* child 'error': the executable could not be started
ChildError ==
    /\ child # None /\ ~child.started /\ ~child.errorEmitted
    /\ ~ContinuationReady
    /\ child' = [child EXCEPT !.errorEmitted = TRUE]
    /\ promise' = Settle(OnError(MsgSpawn(child.command)))
    /\ events' = Append(events, [type |-> "error", command |-> child.command])
    /\ UNCHANGED <<envVars, pc, entryPoint, tempDir, tmpdirs, pending, posted>>

\* child 'close': a started child has terminated with some exit code, or a
\* child that never started reports the negative errno after its 'error'
ChildClose ==
    /\ child # None /\ ~child.closed
    /\ child.started \/ child.errorEmitted
    /\ ~ContinuationReady
    /\ \E code \in (IF child.started THEN ExitCodes ELSE {Some(-2)}) :
        /\ promise' = Settle(OnClose(code))
        /\ events' = Append(events, [type |-> "close", command |-> child.command,
                                     code |-> code])
    /\ child' = [child EXCEPT !.closed = TRUE]
    /\ UNCHANGED <<envVars, pc, entryPoint, tempDir, tmpdirs, pending, posted>>

\* runPythonSample after its await, and the end of handleRunSampleTest
AfterPythonRun ==
    /\ pc = "py_run"
    /\ promise.state \in {"resolved", "rejected"}
    /\ IF promise.state = "rejected"
       THEN Post(Throw(promise.error), events)
       ELSE Post(Return(SampleResult(promise.value, expectedOutput)), events)
    /\ UNCHANGED <<envVars, entryPoint, tempDir, tmpdirs, child, promise, pending>>

\* runJavaSample after the await of the compiler
AfterCompile ==
    /\ pc = "java_compile"
    /\ promise.state \in {"resolved", "rejected"}
    /\ IF promise.state = "rejected"
       THEN /\ Finally(Throw(promise.error), events)
            /\ UNCHANGED <<child, promise>>
       ELSE IF CompileFailed(promise.value)
       THEN /\ Finally(Throw(CompileErrorMessage(promise.value)), events)
            /\ UNCHANGED <<child, promise>>
       ELSE /\ runProcess(JavaExecutables.java,
                          <<Str("-cp"), tempDir.val, ClassName(entryPoint.val)>>,
                          req.sampleInput, Dirname(resolveFileUri(req.filePath)),
                          events)
            /\ pc' = "java_run"
            /\ UNCHANGED <<pending, posted>>
    /\ UNCHANGED <<envVars, entryPoint, tempDir, tmpdirs>>

\* runJavaSample after the await of the runtime
AfterRun ==
    /\ pc = "java_run"
    /\ promise.state \in {"resolved", "rejected"}
    /\ IF promise.state = "rejected"
       THEN Finally(Throw(promise.error), events)
       ELSE Finally(Return(SampleResult(promise.value, expectedOutput)), events)
    /\ UNCHANGED <<envVars, entryPoint, tempDir, tmpdirs, child, promise>>

MsgRmFailed == <<"rm-failed">>

\* faulty variant: the removal is not wrapped in its own try/catch, so that
\* its error replaces the completion of the try block
FinallyCompletion_NoCatch(tryOutcome, removed) ==
    IF removed THEN tryOutcome ELSE Throw(MsgRmFailed)

\* the completion of runJavaSample once the finally clause has run: the
\* inner catch swallows a failed removal, so it is that of the try block
FinallyCompletion(tryOutcome, removed) == tryOutcome

\* fs.rm answers (a failure is swallowed), the completion held by finally is
\* delivered, and handleRunSampleTest posts it
RmDone ==
    /\ pc = "java_rm"
    /\ \E removed \in BOOLEAN :
        /\ tmpdirs' = IF removed THEN tmpdirs \ {tempDir.val} ELSE tmpdirs
        /\ Post(FinallyCompletion(pending.val, removed),
                Append(events, [type |-> "rm", dir |-> tempDir.val,
                                removed |-> removed]))
    /\ pending' = None
    /\ UNCHANGED <<envVars, entryPoint, tempDir, child, promise>>

Next ==
    \/ HandleRunSampleTest
    \/ StatDone
    \/ ReadFileDone
    \/ MkdtempDone
    \/ \E data \in OutChars : ChildStdoutData(data)
    \/ \E data \in OutChars : ChildStderrData(data)
    \/ ChildError
    \/ ChildClose
    \/ AfterPythonRun
    \/ AfterCompile
    \/ AfterRun
    \/ RmDone

Spec == Init /\ [][Next]_vars

\* ------------------------------------------------------- history queries
EventIndexes == 1..Len(events)

\* some process was launched (spawn was called)
AnySpawn == \E i \in EventIndexes : events[i].type = "spawn"

\* some process was started by the operating system
AnyLaunch ==
    \E i \in EventIndexes : events[i].type = "spawn" /\ events[i].started

\* the given executable was launched
Spawned(command) ==
    \E i \in EventIndexes :
        events[i].type = "spawn" /\ events[i].command = command

\* a workspace directory was created
AnyMkdtemp == \E i \in EventIndexes : events[i].type = "mkdtemp"

\* the compile step failed: the compiler could not be launched, or it
\* terminated with anything but exit code 0
CompileFailureObserved ==
    \E i \in EventIndexes :
        /\ events[i].type \in {"error", "close"}
        /\ events[i].command = JavaExecutables.javac
        /\ events[i].type = "close" => events[i].code # Some(0)

\* the request passed the checks of handleRunSampleTest, so that
\* runSampleTest was called
ReachedDispatch ==
    /\ Len(req.filePath) > 0
    /\ Len(req.sampleInput) > 0
    /\ IsAbsolute(req.filePath) \/ workspaceFolder
    /\ fileKind \in {"file", "dir"}

\* the call has returned to the webview with one message
Done == pc = "done" /\ Len(posted) = 1

\* the exit code the operating system reported for the current child
ClosedWith(code) ==
    \E i \in EventIndexes :
        /\ events[i].type = "close"
        /\ events[i].command = child.command
        /\ events[i].code = code

\* the current child is the run step (the interpreter or the Java runtime)
ChildIsRunStep ==
    /\ child # None
    /\ child.command \in {PythonPath, JavaExecutables.java}

\* ------------------------------------------------------------------ claims

\* C1 (as stated): once the call of the Java strategy has returned or thrown,
\* the workspace directory it created does not exist.
C1_WorkspaceNeverLeftBehind ==
    (pc = "done" /\ tempDir # None) => tempDir.val \notin tmpdirs

\* C1 (amended): once the call of the Java strategy has returned or thrown,
\* removal of the workspace it created has been attempted exactly once,
\* whatever the outcome, and the directory still exists only if that removal
\* failed.
C1_WorkspaceRemovedUnlessRemovalFailed ==
    (pc = "done" /\ tempDir # None) =>
        LET attempts == {i \in EventIndexes :
                            events[i].type = "rm" /\ events[i].dir = tempDir.val}
        IN  /\ Cardinality(attempts) = 1
            /\ \A i \in attempts :
                (tempDir.val \in tmpdirs) <=> ~events[i].removed

\* C1 witness: the compile step failed, the call has thrown, and the
\* workspace is gone.
C1_Witness ==
    /\ Done /\ tempDir # None /\ tempDir.val \notin tmpdirs
    /\ ~posted[1].ok
    /\ CompileFailureObserved

\* C2: when the compile step fails (the compiler does not start, or ends
\* with a code other than 0), the runtime is never launched.
C2_NoRunAfterCompileFailure ==
    CompileFailureObserved => ~Spawned(JavaExecutables.java)

\* C2 witness: the compiler ran and exited non-zero, and the call is over.
C2_Witness ==
    /\ Done
    /\ child # None /\ child.command = JavaExecutables.javac
    /\ child.started /\ ClosedWith(Some(1))

\* C3: when an expected output is supplied, the returned matched is the
\* equality of the normalized run-step stdout and the normalized expectation,
\* for the interpreter and for the Java runtime.
C3_MatchedIsNormalizedEquality ==
    (Done /\ posted[1].ok /\ req.expectedOutput.some) =>
        /\ ChildIsRunStep
        /\ posted[1].matched =
              Some(normalizeProgramOutput(child.stdout)
                     = normalizeProgramOutput(req.expectedOutput.val))

\* C3 witness: the Java runtime printed a text that differs from the
\* expectation as a string and matches it after normalization.
C3_Witness ==
    /\ Done /\ posted[1].ok /\ req.expectedOutput.some
    /\ child.command = JavaExecutables.java
    /\ child.stdout # req.expectedOutput.val
    /\ posted[1].matched = Some(TRUE)

\* C4: when the expected output is absent (undefined or null), matched is
\* absent, whatever the process wrote and however it ended.
C4_NoExpectationNoVerdict ==
    (Done /\ posted[1].ok /\ ~req.expectedOutput.some) =>
        posted[1].matched = None

\* C4 witness: a null expectation, a run that printed something and exited 1.
C4_Witness ==
    /\ Done /\ posted[1].ok /\ req.expectedOutput = Null
    /\ posted[1].stdout # <<>>
    /\ posted[1].exitCode = Some(1)

\* C5 (as stated): an empty file path, a path that denotes no existing file
\* (nothing there, or a directory), or an empty sample input makes the
\* request fail, with no process launched and no workspace created.
C5_InvalidRequestSpawnsNothing ==
    (\/ Len(req.filePath) = 0
     \/ Len(req.sampleInput) = 0
     \/ fileKind \in {"missing", "dir"}) =>
        /\ ~AnyLaunch
        /\ ~AnyMkdtemp
        /\ Done => ~posted[1].ok

\* C6: a language other than python and java makes runSampleTest fail with
\* a message that contains the language, without a process or a workspace.
C6_UnsupportedLanguage ==
    (req.language \notin {"python", "java"}) =>
        /\ ~AnySpawn
        /\ ~AnyMkdtemp
        /\ (Done /\ ReachedDispatch) =>
              /\ ~posted[1].ok
              /\ posted[1].error = MsgUnsupported(req.language)
              /\ \E k \in 1..Len(posted[1].error) :
                    posted[1].error[k] = req.language

\* C6 witness: runSampleTest was called with cpp and the call has failed.
C6_Witness ==
    Done /\ ReachedDispatch /\ req.language = "cpp" /\ ~posted[1].ok

\* C7: a Java source without a public class or without an entry method is
\* rejected before the workspace is created and before the compiler is
\* launched; an entry-point error is never preceded by either.
C7_EntryPointErrorBeforeAnyWork ==
    /\ (/\ req.language = "java" /\ ReachedDispatch /\ fileKind = "file"
        /\ source.publicClass = None \/ ~source.mainMethod) =>
            /\ ~AnySpawn /\ ~AnyMkdtemp /\ tmpdirs = {}
            /\ Done => /\ ~posted[1].ok
                       /\ posted[1].error \in {MsgNoPublicClass, MsgNoMainMethod}
    /\ \A k \in 1..Len(posted) :
        (~posted[k].ok /\ posted[k].error \in {MsgNoPublicClass, MsgNoMainMethod})
            => ~AnySpawn /\ ~AnyMkdtemp

\* C7 witness: a public class without an entry method has been rejected.
C7_Witness ==
    /\ Done /\ ~posted[1].ok /\ posted[1].error = MsgNoMainMethod
    /\ source.publicClass # None

\* the text C8 promises after the fixed prefix, leading and trailing
\* whitespace apart: stderr, else stdout when stderr has no text, else the
\* generic string when neither has
C8_PromisedText(stderr, stdout) ==
    IF Trim(stderr) # <<>> THEN Trim(stderr)
    ELSE IF Trim(stdout) # <<>> THEN Trim(stdout)
    ELSE MsgUnknownCompileError

\* C8 (as stated): a compiler that exits non-zero makes the call fail with
\* the compiler's stderr text, or its stdout text when stderr is empty, or
\* the generic string when both are empty, for every pair (stderr, stdout),
\* a whitespace-only stderr beside a stdout with text included.
C8_CompileErrorCarriesDiagnostics ==
    (/\ pc = "java_rm"
     /\ child.command = JavaExecutables.javac
     /\ promise.state = "resolved"
     /\ promise.value.exitCode.some /\ promise.value.exitCode # Some(0)) =>
        /\ ~pending.val.ok
        /\ pending.val.error =
              CompilePrefix \o C8_PromisedText(promise.value.stderr,
                                               promise.value.stdout)

\* C9: a run step that was launched and has terminated, with whatever exit
\* code and whether or not its output matches, makes the call return a
\* result that carries that exit code and the verdict; it never fails.
C9_ExitCodeAndMismatchAreData ==
    (Done /\ ChildIsRunStep /\ child.started) =>
        /\ posted[1].ok
        /\ ClosedWith(posted[1].exitCode)
        /\ posted[1].matched = ComputeMatched(child.stdout, expectedOutput)

\* C9 witness: the run step died without an exit code and its output does
\* not match the expectation.
C9_Witness ==
    /\ Done /\ ChildIsRunStep /\ child.started
    /\ posted[1].exitCode = None
    /\ posted[1].matched = Some(FALSE)

\* C10: the promise of runProcess is rejected exactly when the executable
\* could not be started, and resolved with the buffers and the exit code
\* exactly when the process was started and has terminated.
C10_RejectsExactlyOnLaunchFailure ==
    child # None =>
        /\ promise.state = "rejected" <=> (~child.started /\ child.errorEmitted)
        /\ promise.state = "resolved" <=> (child.started /\ child.closed)
        /\ promise.state = "resolved" =>
              /\ ClosedWith(promise.value.exitCode)
              /\ promise.value.stdout = child.stdout
              /\ promise.value.stderr = child.stderr

\* C10 witness: a child that never started has also emitted 'close', and
\* the promise is still rejected.
C10_Witness ==
    /\ child # None /\ ~child.started /\ child.closed
    /\ promise.state = "rejected"

\* the indexes of the history that satisfy a condition on the event
SpawnsOf(command) ==
    {i \in EventIndexes : events[i].type = "spawn" /\ events[i].command = command}

Removals == {i \in EventIndexes : events[i].type = "rm"}

Creations == {i \in EventIndexes : events[i].type = "mkdtemp"}

\* C11: a request yields exactly one outcome, a result or a failure with a
\* message and never both, and no step (interpreter, compiler, runtime,
\* workspace creation) is executed a second time.
C11_OneOutcomeNoRetry ==
    /\ Len(posted) <= 1
    /\ pc = "done" <=> Len(posted) = 1
    /\ \A k \in 1..Len(posted) :
        /\ posted[k].ok <=> "stdout" \in DOMAIN posted[k]
        /\ ~posted[k].ok <=> "error" \in DOMAIN posted[k]
        /\ ~posted[k].ok => Len(posted[k].error) > 0
    /\ \A command \in {PythonPath, JavaExecutables.javac, JavaExecutables.java} :
        Cardinality(SpawnsOf(command)) <= 1
    /\ Cardinality(Creations) <= 1

\* C11 witness: the runtime could not be launched; the call has failed once,
\* and nothing was launched again.
C11_Witness ==
    /\ Done /\ ~posted[1].ok
    /\ child # None
    /\ child.command = JavaExecutables.java /\ ~child.started
    /\ Cardinality(SpawnsOf(JavaExecutables.java)) = 1

\* the completion of the try block of runJavaSample, read off the settled
\* promise of the last runProcess call
C18_TryOutcome ==
    IF promise.state = "rejected" THEN Throw(promise.error)
    ELSE IF child.command = JavaExecutables.javac
    THEN Throw(CompileErrorMessage(promise.value))
    ELSE Return(SampleResult(promise.value, expectedOutput))

\* C18: an invocation that created a workspace attempts its removal exactly
\* once, whichever step failed, and the outcome delivered is that of the try
\* block whether or not the removal succeeded.
C18_RemovalOnceAndNeverMasks ==
    (pc = "done" /\ tempDir # None) =>
        /\ Cardinality(Removals) = 1
        /\ \A i \in Removals : events[i].dir = tempDir.val
        /\ posted = <<ResultMessage(C18_TryOutcome)>>

\* C18 witness: the removal failed after a successful run, and the result
\* was delivered.
C18_Witness ==
    /\ Done /\ posted[1].ok
    /\ \E i \in Removals : ~events[i].removed

\* C19: the interpreted strategy launches one process, the interpreter with
\* the source file as only argument, the sample input as stdin and the
\* file's directory as working directory, and returns the engine's stdout,
\* stderr and exit code as they are.
C19_InterpreterOneProcessRawOutput ==
    (req.language = "python") =>
        /\ Cardinality({i \in EventIndexes : events[i].type = "spawn"}) <= 1
        /\ ~AnyMkdtemp
        /\ (Done /\ ReachedDispatch) => Cardinality(SpawnsOf(PythonPath)) = 1
        /\ child # None =>
              /\ child.command = PythonPath
              /\ child.args = <<resolveFileUri(req.filePath)>>
              /\ child.input = req.sampleInput
              /\ child.cwd = Dirname(resolveFileUri(req.filePath))
        /\ (Done /\ posted[1].ok) =>
              /\ posted[1].stdout = child.stdout
              /\ posted[1].stderr = child.stderr
              /\ ClosedWith(posted[1].exitCode)

\* C19 witness: the interpreter's output matches only after normalization,
\* and the stdout returned is the raw one.
C19_Witness ==
    /\ Done /\ req.language = "python" /\ posted[1].ok
    /\ posted[1].matched = Some(TRUE)
    /\ posted[1].stdout # normalizeProgramOutput(posted[1].stdout)

\* C20: the Java strategy runs DetectEntryPoint, CreateWorkspace, Compile,
\* Run, DestroyWorkspace in this order: the workspace exists before the
\* compiler is launched, the runtime is launched only after the compiler has
\* terminated with code 0, removal starts only when no launched process is
\* still running, and it happens if and only if the workspace was created.
C20_JavaStepOrder ==
    /\ Creations # {} => entryPoint # None
    /\ \A j \in SpawnsOf(JavaExecutables.javac) : \E i \in Creations : i < j
    /\ \A k \in SpawnsOf(JavaExecutables.java) :
        \E j \in 1..(k - 1) :
            /\ events[j].type = "close"
            /\ events[j].command = JavaExecutables.javac
            /\ events[j].code = Some(0)
            /\ \E i \in SpawnsOf(JavaExecutables.javac) : i < j
    /\ (pc = "java_rm" \/ Removals # {}) =>
        \A i \in EventIndexes :
            (events[i].type = "spawn" /\ events[i].started) =>
                \E c \in EventIndexes :
                    /\ i < c
                    /\ events[c].type = "close"
                    /\ events[c].command = events[i].command
                    /\ \A m \in Removals : c < m
    /\ Removals # {} => Creations # {}
    /\ pc = "done" => (Removals # {} <=> Creations # {})

\* C20 witness: all five steps have happened and the call is over.
C20_Witness ==
    /\ Done /\ posted[1].ok
    /\ SpawnsOf(JavaExecutables.java) # {}
    /\ Removals # {}

\* ------------------------------------------- normalizeProgramOutput alone
\* the longest input string, and the longest member of a pair of strings
NormLen == 3
PairLen == 2

\* ordinary characters and the white space program output is made of
NormChars == {"a", " ", "\t", "\r", "\n", "\f", "U+000B"}

StrUpTo(chars, n) == UNION {[1..k -> chars] : k \in 0..n}

\* the same two lines, CRLF-terminated, LF-terminated and unterminated
ExampleCRLF == <<"a", "\r", "\n", "b", "\r", "\n">>
ExampleLF == <<"a", "\n", "b", "\n">>
ExampleBare == <<"a", "\n", "b">>
Examples == {ExampleCRLF, ExampleLF, ExampleBare}

\* the variables of the sample-test pipeline, idle while a function is
\* evaluated on its own
pipeVars == <<req, workspaceFolder, fileKind, source, pc, entryPoint, tempDir,
              tmpdirs, child, promise, pending, posted, events>>

PipelineOff ==
    /\ req = [language |-> "python", filePath |-> <<>>, sampleInput |-> <<>>,
              expectedOutput |-> None]
    /\ workspaceFolder = FALSE
    /\ fileKind = "missing"
    /\ source = PlainSource
    /\ pc = "off"
    /\ entryPoint = None
    /\ tempDir = None
    /\ tmpdirs = {}
    /\ child = None
    /\ promise = NoPromise
    /\ pending = None
    /\ posted = <<>>
    /\ events = <<>>

\* a string to normalize, or a pair of strings to normalize and compare
InitNorm ==
    /\ PipelineOff
    /\ conc = ConcIdle
    /\ \/ \E s \in StrUpTo(NormChars, NormLen) : calc = [op |-> "input", s |-> s]
       \/ \E s, t \in StrUpTo(NormChars, PairLen) \cup Examples :
              calc = [op |-> "pair", s |-> s, t |-> t]

\* normalizeProgramOutput(s)
Normalize ==
    /\ calc.op = "input"
    /\ calc' = [op |-> "normalized", s |-> calc.s,
                out |-> normalizeProgramOutput(calc.s)]
    /\ UNCHANGED <<pipeVars, conc>>

\* normalizeProgramOutput applied to its own result
NormalizeAgain ==
    /\ calc.op = "normalized"
    /\ calc' = [op |-> "twice", s |-> calc.s, out |-> calc.out,
                out2 |-> normalizeProgramOutput(calc.out)]
    /\ UNCHANGED <<pipeVars, conc>>

\* the two sides of the comparison in matched
NormalizePair ==
    /\ calc.op = "pair"
    /\ calc' = [op |-> "compared", s |-> calc.s, t |-> calc.t,
                outS |-> normalizeProgramOutput(calc.s),
                outT |-> normalizeProgramOutput(calc.t)]
    /\ UNCHANGED <<pipeVars, conc>>

NextNorm ==
    \/ Normalize
    \/ NormalizeAgain
    \/ NormalizePair

SpecNorm == InitNorm /\ [][NextNorm]_vars

\* C12: normalization is idempotent.
C12_NormalizeIdempotent ==
    calc.op = "twice" => calc.out2 = calc.out

\* C12 witness: a string that normalization changes has been normalized twice.
C12_Witness ==
    /\ calc.op = "twice"
    /\ calc.s = <<"a", "\r", " ">>
    /\ calc.out = <<"a">>

\* a string read in one pass as ordinary characters and line breaks, a line
\* break being CRLF, a lone CR or LF
RECURSIVE LineBreaksToLF(_)

LineBreaksToLF(s) ==
    IF s = <<>> THEN <<>>
    ELSE IF s[1] = "\r" /\ Len(s) >= 2 /\ s[2] = "\n"
    THEN <<"\n">> \o LineBreaksToLF(SubSeq(s, 3, Len(s)))
    ELSE IF s[1] = "\r" THEN <<"\n">> \o LineBreaksToLF(Tail(s))
    ELSE <<s[1]>> \o LineBreaksToLF(Tail(s))

\* a string without its longest suffix made of the given characters
StripSuffix(s, chars) ==
    LET keep == {i \in 1..Len(s) : s[i] \notin chars}
    IN  IF keep = {} THEN <<>>
        ELSE SubSeq(s, 1, CHOOSE i \in keep : \A j \in keep : j <= i)

\* two strings differ only in line-ending style and trailing white space
SameUpToLineEndings(s, t) ==
    StripSuffix(LineBreaksToLF(s), {" ", "\t", "\n", "\f", "U+000B"}) =
        StripSuffix(LineBreaksToLF(t), {" ", "\t", "\n", "\f", "U+000B"})

\* C13: two strings that differ only in the style of their line breaks and
\* in their trailing white space normalize to the same string; the CRLF, the
\* LF and the unterminated form of the same two lines do.
C13_LineEndingStyleIgnored ==
    calc.op = "compared" =>
        /\ SameUpToLineEndings(calc.s, calc.t) => calc.outS = calc.outT
        /\ (calc.s \in Examples /\ calc.t \in Examples) => calc.outS = calc.outT

\* C13 witness: the CRLF-terminated and the unterminated form were compared.
C13_Witness ==
    /\ calc.op = "compared"
    /\ calc.s = ExampleCRLF /\ calc.t = ExampleBare
    /\ calc.outS = ExampleBare /\ calc.outT = ExampleBare

\* C14 as stated: after the line breaks are made LF, only spaces, tabs and
\* newlines are removed from the end.
C14_StripsSpacesTabsNewlinesOnly ==
    calc.op = "normalized" =>
        calc.out = StripSuffix(LineBreaksToLF(calc.s), {" ", "\t", "\n"})

\* C14: normalization makes every CRLF and lone CR an LF and removes the
\* longest suffix of white space as trimEnd defines it (a form feed is white
\* space too, and so is a vertical tab); leading and interior characters stay
\* as they were.
C14_NormalizeIsReplaceThenTrimEnd ==
    calc.op = "normalized" =>
        /\ calc.out = StripSuffix(LineBreaksToLF(calc.s), {" ", "\t", "\n", "\f", "U+000B"})
        /\ "\r" \notin {calc.s[i] : i \in 1..Len(calc.s)} =>
              /\ Len(calc.out) <= Len(calc.s)
              /\ calc.out = SubSeq(calc.s, 1, Len(calc.out))
              /\ \A i \in (Len(calc.out) + 1)..Len(calc.s) : IsWhitespace(calc.s[i])

\* C14 witness: leading and interior white space is kept, the trailing
\* white space is removed.
C14_Witness ==
    /\ calc.op = "normalized"
    /\ calc.s = <<" ", "a", "\f">>
    /\ calc.out = <<" ", "a">>

\* ------------------------------------------------- the toolchain resolver
\* a separator of path.join, and the installation directories the
\* environment names, in the notation of the platform
PathSep == "<sep>"
JavaHomeDir == "<java-home>"
JdkHomeDir == "<jdk-home>"

\* values of a path setting: unset, empty, blank, set, set with blanks around
ConfiguredPaths(tool) ==
    {None, Some(<<>>), Some(<<" ">>), Some(<<"/opt/", tool>>),
     Some(<<" ", "/opt/", tool, " ">>)}

\* values of an environment variable: unset, empty, blank, set
HomeValues(dir) == {None, Some(<<>>), Some(<<" ">>), Some(<<dir>>)}

Platforms == {"win32", "linux"}

\* config.get<string>(key)?.trim()
OptionalTrim(v) == IF v = None THEN None ELSE Some(Trim(v.val))

\* process.platform === 'win32' ? '.exe' : ''
Suffix(platform) == IF platform = "win32" THEN <<".exe">> ELSE <<>>

\* path.join(home, 'bin', file)
PathJoin(home, file) == home \o <<PathSep, "bin", PathSep>> \o file

\* fromHome: undefined for an unset or empty variable
fromHome(home, binary, platform) ==
    IF home # None /\ home.val # <<>>
    THEN Some(PathJoin(home.val, binary \o Suffix(platform)))
    ELSE None

\* pickFirst: the first candidate that is defined and not blank, else ''
RECURSIVE pickFirst(_)

pickFirst(candidates) ==
    IF candidates = <<>> THEN <<>>
    ELSE LET candidate == Head(candidates)
         IN  IF candidate # None /\ candidate.val # <<>> /\ Trim(candidate.val) # <<>>
             THEN candidate.val
             ELSE pickFirst(Tail(candidates))

\* faulty variant: JDK_HOME is tried before JAVA_HOME
Candidates_JdkHomeFirst(configured, env, binary, platform) ==
    <<OptionalTrim(configured),
      fromHome(env.JDK_HOME, binary, platform),
      fromHome(env.JAVA_HOME, binary, platform),
      IF Suffix(platform) # <<>> THEN Some(binary \o Suffix(platform)) ELSE None,
      Some(binary)>>

\* the array handed to pickFirst for one tool
Candidates(configured, env, binary, platform) ==
    <<OptionalTrim(configured),
      fromHome(env.JAVA_HOME, binary, platform),
      fromHome(env.JDK_HOME, binary, platform),
      IF Suffix(platform) # <<>> THEN Some(binary \o Suffix(platform)) ELSE None,
      Some(binary)>>

\* getJavaExecutables, with the configuration, the environment and the
\* platform it reads as parameters
getJavaExecutables(config, env, platform) ==
    [java  |-> OrElse(pickFirst(Candidates(config.javaPath, env, <<"java">>, platform)),
                      <<"java">>),
     javac |-> OrElse(pickFirst(Candidates(config.javacPath, env, <<"javac">>, platform)),
                      <<"javac">>)]

\* config.get<string>('pythonPath', 'python'): the default only when unset
getPythonPath(config) ==
    IF config.pythonPath = None THEN <<"python">> ELSE config.pythonPath.val

InitResolve ==
    /\ PipelineOff
    /\ conc = ConcIdle
    /\ \E config \in [javaPath : ConfiguredPaths("java"),
                      javacPath : ConfiguredPaths("javac"),
                      pythonPath : ConfiguredPaths("python")],
          env \in [JAVA_HOME : HomeValues(JavaHomeDir),
                   JDK_HOME : HomeValues(JdkHomeDir)],
          platform \in Platforms :
          calc = [op |-> "settings", config |-> config, env |-> env,
                  platform |-> platform]

\* runJavaSample asks for the compiler and the runtime
ResolveJava ==
    /\ calc.op = "settings"
    /\ calc' = [op |-> "java", config |-> calc.config, env |-> calc.env,
                platform |-> calc.platform,
                executables |-> getJavaExecutables(calc.config, calc.env,
                                                   calc.platform)]
    /\ UNCHANGED <<pipeVars, conc>>

\* runPythonSample asks for the interpreter
ResolvePython ==
    /\ calc.op = "settings"
    /\ calc' = [op |-> "python", config |-> calc.config, env |-> calc.env,
                platform |-> calc.platform,
                pythonPath |-> getPythonPath(calc.config)]
    /\ UNCHANGED <<pipeVars, conc>>

NextResolve ==
    \/ ResolveJava
    \/ ResolvePython

SpecResolve == InitResolve /\ [][NextResolve]_vars

\* a setting or a variable holds something else than blanks / is not empty
NonBlank(v) == v # None /\ Trim(v.val) # <<>>
NonEmpty(v) == v # None /\ v.val # <<>>

\* the executable the stated precedence gives one role
C15_Expected(configured, env, binary, platform) ==
    IF NonBlank(configured) THEN Trim(configured.val)
    ELSE IF NonEmpty(env.JAVA_HOME)
    THEN env.JAVA_HOME.val \o <<PathSep, "bin", PathSep>> \o binary \o Suffix(platform)
    ELSE IF NonEmpty(env.JDK_HOME)
    THEN env.JDK_HOME.val \o <<PathSep, "bin", PathSep>> \o binary \o Suffix(platform)
    ELSE IF platform = "win32" THEN binary \o <<".exe">>
    ELSE binary

\* C15: each role resolves to its configured path when that is not blank,
\* else to JAVA_HOME/bin/tool+suffix, else to JDK_HOME/bin/tool+suffix, else
\* to the bare tool name with the platform suffix; the path configured for
\* one role has no effect on the other.
C15_ResolverPrecedence ==
    calc.op = "java" =>
        /\ calc.executables.java =
              C15_Expected(calc.config.javaPath, calc.env, <<"java">>, calc.platform)
        /\ calc.executables.javac =
              C15_Expected(calc.config.javacPath, calc.env, <<"javac">>, calc.platform)
        /\ \A other \in ConfiguredPaths("javac") :
              getJavaExecutables([calc.config EXCEPT !.javacPath = other],
                                 calc.env, calc.platform).java = calc.executables.java
        /\ \A other \in ConfiguredPaths("java") :
              getJavaExecutables([calc.config EXCEPT !.javaPath = other],
                                 calc.env, calc.platform).javac = calc.executables.javac
        /\ (calc.config.javaPath = None /\ calc.config.javacPath = None
            /\ calc.env.JAVA_HOME = None /\ calc.env.JDK_HOME = None
            /\ calc.platform = "linux") =>
              calc.executables = [java |-> <<JavaExecutables.java>>,
                                  javac |-> <<JavaExecutables.javac>>]

\* C15 witness: the runtime is configured, the compiler is not and comes
\* from JAVA_HOME although JDK_HOME is set too.
C15_Witness ==
    /\ calc.op = "java"
    /\ calc.platform = "win32"
    /\ calc.config.javaPath = Some(<<" ", "/opt/", "java", " ">>)
    /\ calc.config.javacPath = Some(<<" ">>)
    /\ calc.env.JAVA_HOME = Some(<<JavaHomeDir>>)
    /\ calc.env.JDK_HOME = Some(<<JdkHomeDir>>)
    /\ calc.executables.java = <<"/opt/", "java">>
    /\ calc.executables.javac =
          <<JavaHomeDir, PathSep, "bin", PathSep, "javac", ".exe">>

\* C16 as stated: whatever the settings and the environment, the compiler,
\* the runtime and the interpreter resolve to a non-empty executable.
C16_ResolutionNeverEmpty ==
    /\ calc.op = "java" =>
          calc.executables.java # <<>> /\ calc.executables.javac # <<>>
    /\ calc.op = "python" => calc.pythonPath # <<>>

\* ------------------------------------------- several requests in flight
\* the number of runSampleTest messages handled at the same time
NReq == 2

Reqs == 1..NReq

\* what a runtime prints and how it exits
ConcOuts == {<<"a">>, <<"a", "\n">>}
ConcCodes == {Some(0), Some(1)}

\* the variables of the single-request pipeline that stay idle here; the
\* temporary directories are those of the one file system
concOff == <<req, workspaceFolder, fileKind, source, pc, entryPoint, tempDir,
             child, promise, pending, posted, events, calc>>

\* the source file of request r, one Main.java per problem directory
ConcFilePath(r) == <<"/", "w", "/", "p", ToString(r), "/", "Main.java">>

\* the message handleRunSampleTest posts for a completion of request r
ConcMessage(r, outcome) ==
    ResultMessageOf([language |-> conc.reqs[r].language,
                     filePath |-> conc.reqs[r].filePath,
                     expectedOutput |-> conc.reqs[r].expected], outcome)

\* each handler is past detectJavaEntryPoint and awaits mkdtemp; a class
\* file is written as <<directory, request that compiled it>>
InitConc ==
    /\ PipelineOff
    /\ calc = CalcIdle
    /\ \E expected \in [Reqs -> {None, Some(<<"a">>)}] :
          conc = [op |-> "running",
                  files |-> {},
                  reqs |-> [r \in Reqs |->
                              [pc |-> "java_mkdtemp", language |-> "java",
                               filePath |-> ConcFilePath(r),
                               expected |-> expected[r],
                               tempDir |-> None, result |-> None,
                               pending |-> None, posted |-> None]]]

\* request r with some of its fields changed, the rest of conc as it is
ConcStep(r, fields, files) ==
    conc' = [conc EXCEPT !.files = files,
                         !.reqs[r] = [f \in DOMAIN conc.reqs[r] |->
                                        IF f \in DOMAIN fields THEN fields[f]
                                        ELSE conc.reqs[r][f]]]

\* mkdtemp answers request r; on success the compiler is launched with the
\* new directory as its -d argument
ConcMkdtempDone(r) ==
    /\ conc.op = "running"
    /\ conc.reqs[r].pc = "java_mkdtemp"
    /\ \E created \in BOOLEAN :
        IF created
        THEN /\ tmpdirs' = tmpdirs \cup {FreshTempDir}
             /\ ConcStep(r, [pc |-> "java_compile", tempDir |-> Some(FreshTempDir)],
                         conc.files)
        ELSE /\ ConcStep(r, [pc |-> "done",
                             posted |-> Some(ConcMessage(r, Throw(MsgMkdtempFailed)))],
                         conc.files)
             /\ UNCHANGED tmpdirs
    /\ UNCHANGED concOff

\* the compiler of request r is over: a compiler that exits with 0 has
\* written the class file into its -d directory; the handler goes on to
\* the run or to the finally clause
ConcCompileDone(r) ==
    /\ conc.op = "running"
    /\ conc.reqs[r].pc = "java_compile"
    /\ \E settled \in {Rejected(MsgSpawn(JavaExecutables.javac))} \cup
                      {Resolved([stdout |-> <<>>, stderr |-> <<>>, exitCode |-> code]) :
                          code \in ConcCodes} :
        IF settled.state = "rejected"
        THEN ConcStep(r, [pc |-> "java_rm", pending |-> Some(Throw(settled.error))],
                      conc.files)
        ELSE IF CompileFailed(settled.value)
        THEN ConcStep(r, [pc |-> "java_rm",
                          pending |-> Some(Throw(CompileErrorMessage(settled.value)))],
                      conc.files)
        ELSE ConcStep(r, [pc |-> "java_run"],
                      IF conc.reqs[r].tempDir.val \in tmpdirs
                      THEN conc.files \cup {<<conc.reqs[r].tempDir.val, r>>}
                      ELSE conc.files)
    /\ UNCHANGED <<concOff, tmpdirs>>

\* the runtime of request r is over: without the class file in its -cp
\* directory it has printed nothing and exited with 1
ConcRunDone(r) ==
    /\ conc.op = "running"
    /\ conc.reqs[r].pc = "java_run"
    /\ \E settled \in {Rejected(MsgSpawn(JavaExecutables.java))} \cup
                      {Resolved([stdout |-> out, stderr |-> <<>>, exitCode |-> code]) :
                          out \in ConcOuts, code \in ConcCodes} :
        /\ (settled.state = "resolved"
            /\ <<conc.reqs[r].tempDir.val, r>> \notin conc.files) =>
              settled.value = [stdout |-> <<>>, stderr |-> <<>>, exitCode |-> Some(1)]
        /\ IF settled.state = "rejected"
           THEN ConcStep(r, [pc |-> "java_rm", pending |-> Some(Throw(settled.error))],
                         conc.files)
           ELSE ConcStep(r, [pc |-> "java_rm", result |-> Some(settled.value),
                             pending |-> Some(Return(SampleResult(settled.value,
                                                conc.reqs[r].expected)))],
                         conc.files)
    /\ UNCHANGED <<concOff, tmpdirs>>

\* fs.rm of request r answers, and its handler posts what the try completed
\* with
ConcRmDone(r) ==
    /\ conc.op = "running"
    /\ conc.reqs[r].pc = "java_rm"
    /\ \E removed \in BOOLEAN :
        /\ tmpdirs' = IF removed THEN tmpdirs \ {conc.reqs[r].tempDir.val} ELSE tmpdirs
        /\ ConcStep(r, [pc |-> "done", pending |-> None,
                        posted |-> Some(ConcMessage(r,
                            FinallyCompletion(conc.reqs[r].pending.val, removed)))],
                    IF removed
                    THEN {f \in conc.files : f[1] # conc.reqs[r].tempDir.val}
                    ELSE conc.files)
    /\ UNCHANGED concOff

NextConc ==
    \/ \E r \in Reqs : ConcMkdtempDone(r)
    \/ \E r \in Reqs : ConcCompileDone(r)
    \/ \E r \in Reqs : ConcRunDone(r)
    \/ \E r \in Reqs : ConcRmDone(r)

SpecConc == InitConc /\ [][NextConc]_vars

\* a request owns a workspace it has not yet removed
InFlight(r) == conc.reqs[r].pc \in {"java_compile", "java_run", "java_rm"}

\* C17: requests in flight at the same time have distinct workspaces; until
\* a request has finished its run step its workspace exists and holds only
\* what its own compiler wrote, whatever the other requests clean up; and
\* the result posted for a request is computed from its own process.
C17_WorkspacesIsolated ==
    conc.op = "running" =>
        /\ \A r, q \in Reqs :
              (r # q /\ InFlight(r) /\ InFlight(q)) =>
                  conc.reqs[r].tempDir # conc.reqs[q].tempDir
        /\ \A r \in Reqs :
              conc.reqs[r].pc \in {"java_compile", "java_run"} =>
                  /\ conc.reqs[r].tempDir.val \in tmpdirs
                  /\ \A f \in conc.files :
                        f[1] = conc.reqs[r].tempDir.val => f[2] = r
                  /\ conc.reqs[r].pc = "java_run" =>
                        <<conc.reqs[r].tempDir.val, r>> \in conc.files
        /\ \A r \in Reqs :
              (conc.reqs[r].posted # None /\ conc.reqs[r].result # None) =>
                  conc.reqs[r].posted.val =
                      ConcMessage(r, Return(SampleResult(conc.reqs[r].result.val,
                                                         conc.reqs[r].expected)))

\* C17 witness: the first request has removed its workspace while the
\* second, started before that, is at its run step in another one.
C17_Witness ==
    /\ conc.op = "running"
    /\ conc.reqs[1].pc = "done"
    /\ conc.reqs[1].result # None
    /\ conc.reqs[1].tempDir = Some(<<"/tmp/", TempNames[1]>>)
    /\ <<"/tmp/", TempNames[1]>> \notin tmpdirs
    /\ conc.reqs[2].pc = "java_run"
    /\ conc.reqs[2].tempDir = Some(<<"/tmp/", TempNames[2]>>)

\* ------------------------------------------------ the engine's stdin
\* C21: runProcess writes a non-empty input once, with a newline added when
\* it does not end with one, and then ends the child's stdin; it writes
\* nothing for an empty input, such as the compiler's; stdin is ended exactly
\* once and nothing is written after that.
C21_StdinWrittenOnceThenEnded ==
    child # None =>
        LET ops == child.stdin
            writes == {i \in 1..Len(ops) : ops[i].op = "write"}
            ends == {i \in 1..Len(ops) : ops[i].op = "end"}
        IN  /\ Cardinality(ends) = 1
            /\ ops[Len(ops)].op = "end"
            /\ child.input # <<>> =>
                  /\ Cardinality(writes) = 1
                  /\ \A i \in writes :
                        ops[i].data = IF child.input[Len(child.input)] = "\n"
                                      THEN child.input
                                      ELSE child.input \o <<"\n">>
            /\ child.input = <<>> => writes = {}
            /\ child.command = JavaExecutables.javac => child.input = <<>>

\* C21 witness: the runtime was given an input without final newline.
C21_Witness ==
    /\ child # None
    /\ child.command = JavaExecutables.java
    /\ child.input = <<"5">>
    /\ child.stdin = <<[op |-> "write", data |-> <<"5", "\n">>], [op |-> "end"]>>

\* --------------------------------------- the engine and the child's pipes
\* the bytes a child writes: ASCII and the two bytes of one character
EngineBytes == {"a", "\n", LeadByte, ContByte}

\* the operating-system side of a child: the bytes it has written to each
\* stream, those still in the pipe, and its exit code once it has exited
ProcessStart ==
    [op |-> "process", wroteOut |-> <<>>, wroteErr |-> <<>>,
     pipeOut |-> <<>>, pipeErr |-> <<>>, exited |-> None]

\* one runProcess call has returned its promise
InitEngine ==
    /\ req = [language |-> "python", filePath |-> <<"/", "s">>,
              sampleInput |-> <<"5">>, expectedOutput |-> None]
    /\ workspaceFolder = FALSE
    /\ fileKind = "file"
    /\ source = PlainSource
    /\ pc = "engine"
    /\ entryPoint = None
    /\ tempDir = None
    /\ tmpdirs = {}
    /\ pending = None
    /\ posted = <<>>
    /\ conc = ConcIdle
    /\ calc = ProcessStart
    /\ promise = Pending
    /\ \E started \in BOOLEAN :
        /\ child = NewChild(PythonPath, <<req.filePath>>, req.sampleInput,
                            Dirname(req.filePath), started)
        /\ events = <<[type |-> "spawn", command |-> PythonPath,
                       started |-> started]>>

engineOff == <<req, workspaceFolder, fileKind, source, pc, entryPoint, tempDir,
               tmpdirs, pending, posted, conc>>

\* the child writes a byte to its standard output
ProcessWriteStdout(b) ==
    /\ calc.op = "process" /\ child.started /\ calc.exited = None
    /\ Len(calc.wroteOut) < MaxOut
    /\ calc' = [calc EXCEPT !.wroteOut = @ \o <<b>>, !.pipeOut = @ \o <<b>>]
    /\ UNCHANGED <<engineOff, child, promise, events>>

\* the child writes a byte to its standard error
ProcessWriteStderr(b) ==
    /\ calc.op = "process" /\ child.started /\ calc.exited = None
    /\ Len(calc.wroteErr) < MaxErr
    /\ calc' = [calc EXCEPT !.wroteErr = @ \o <<b>>, !.pipeErr = @ \o <<b>>]
    /\ UNCHANGED <<engineOff, child, promise, events>>

\* the child exits
ProcessExit(code) ==
    /\ calc.op = "process" /\ child.started /\ calc.exited = None
    /\ calc' = [calc EXCEPT !.exited = Some(code)]
    /\ UNCHANGED <<engineOff, child, promise, events>>

\* child.stdout 'data': the bytes in the pipe arrive as one chunk
EngineStdoutData ==
    /\ calc.op = "process" /\ ~child.closed
    /\ calc.pipeOut # <<>>
    /\ child' = [child EXCEPT !.stdout = @ \o BufferToString(calc.pipeOut)]
    /\ calc' = [calc EXCEPT !.pipeOut = <<>>]
    /\ UNCHANGED <<engineOff, promise, events>>

\* child.stderr 'data'
EngineStderrData ==
    /\ calc.op = "process" /\ ~child.closed
    /\ calc.pipeErr # <<>>
    /\ child' = [child EXCEPT !.stderr = @ \o BufferToString(calc.pipeErr)]
    /\ calc' = [calc EXCEPT !.pipeErr = <<>>]
    /\ UNCHANGED <<engineOff, promise, events>>

\* child 'close': the child has exited and both streams have ended, or the
\* child never started
EngineClose ==
    /\ calc.op = "process"
    /\ child.started =>
          calc.exited # None /\ calc.pipeOut = <<>> /\ calc.pipeErr = <<>>
    /\ ChildClose
    /\ child.started => events'[Len(events')].code = calc.exited.val

NextEngine ==
    \/ \E b \in EngineBytes : ProcessWriteStdout(b)
    \/ \E b \in EngineBytes : ProcessWriteStderr(b)
    \/ \E code \in ExitCodes : ProcessExit(code)
    \/ EngineStdoutData
    \/ EngineStderrData
    \/ ChildError
    \/ EngineClose

SpecEngine == InitEngine /\ [][NextEngine]_vars

\* C22 as stated: the result holds all that the child wrote to each stream,
\* in order and in the right buffer, and nothing is delivered later.
C22_ResultIsAllOutputInOrder ==
    (calc.op = "process" /\ promise.state = "resolved") =>
        /\ promise.value.stdout = BufferToString(calc.wroteOut)
        /\ promise.value.stderr = BufferToString(calc.wroteErr)
        /\ calc.pipeOut = <<>> /\ calc.pipeErr = <<>>

\* ------------------------------------------------ the run step's arguments
\* C23: the runtime is launched with -cp, the workspace of this invocation
\* and the class name, which is package.class when the source declares a
\* package and the bare class name when it declares none.
C23_RunArguments ==
    (child # None /\ child.command = JavaExecutables.java) =>
        /\ tempDir # None /\ source.publicClass # None
        /\ child.args =
              <<Str("-cp"), tempDir.val,
                IF source.packageName # None
                THEN source.packageName.val \o <<".">> \o source.publicClass.val
                ELSE source.publicClass.val>>
        /\ \E i \in EventIndexes :
              events[i].type = "mkdtemp" /\ events[i].dir = child.args[2]

\* C23 witness: a class in a package is run.
C23_Witness ==
    /\ child # None /\ child.command = JavaExecutables.java /\ child.started
    /\ child.args = <<Str("-cp"), <<"/tmp/", TempNames[1]>>, <<"p", ".", "Main">>>>

\* ------------------------------------------- the entry-point detector alone
\* the longest source text, in pieces
TextLen == 3

\* the pieces of a source text the three patterns tell apart: a line break,
\* a package clause, a public and a non-public class header, an entry
\* method header with and without "public", and anything else
PackageClause == "package p;"
PublicClassHeader == "public class Main"
PlainClassHeader == "class Main"
MainHeader == "public static void main("
PlainMainHeader == "static void main("
SourcePieces == {"\n", PackageClause, PublicClassHeader, PlainClassHeader,
                 MainHeader, PlainMainHeader, "x"}

\* the package pattern of detectJavaEntryPoint, anchored at a line start,
\* matches at piece i: only white space lies between the start of a line
\* and the clause
PackageMatchesAt(text, i) ==
    /\ text[i] = PackageClause
    /\ \/ \A k \in 1..(i - 1) : text[k] = "\n"
       \/ \E n \in 1..(i - 1) :
             text[n] = "\n" /\ \A m \in (n + 1)..(i - 1) : text[m] = "\n"

\* what the three patterns find in a text
ScanSource(text) ==
    [packageName |-> IF \E i \in 1..Len(text) : PackageMatchesAt(text, i)
                     THEN Some(<<"p">>) ELSE None,
     publicClass |-> IF \E i \in 1..Len(text) : text[i] = PublicClassHeader
                     THEN Some(<<"Main">>) ELSE None,
     mainMethod |-> \E i \in 1..Len(text) : text[i] = MainHeader]

InitDetect ==
    /\ PipelineOff
    /\ conc = ConcIdle
    /\ \E text \in StrUpTo(SourcePieces, TextLen) :
          calc = [op |-> "text", text |-> text]

\* detectJavaEntryPoint on a file with this text
Detect ==
    /\ calc.op = "text"
    /\ calc' = [op |-> "detected", text |-> calc.text,
                found |-> detectJavaEntryPoint("file", ScanSource(calc.text))]
    /\ UNCHANGED <<pipeVars, conc>>

\* runJavaSample builds the class name from the entry point
BuildClassName ==
    /\ calc.op = "detected" /\ calc.found.ok
    /\ calc' = [op |-> "named", text |-> calc.text, found |-> calc.found,
                className |-> ClassName(calc.found.value)]
    /\ UNCHANGED <<pipeVars, conc>>

NextDetect ==
    \/ Detect
    \/ BuildClassName

SpecDetect == InitDetect /\ [][NextDetect]_vars

HasPublicClass(text) == \E i \in 1..Len(text) : text[i] = PublicClassHeader
HasMainMethod(text) == \E i \in 1..Len(text) : text[i] = MainHeader
HasPackageClause(text) == \E i \in 1..Len(text) : text[i] = PackageClause

\* C24: without a public class the detection fails with the missing-class
\* error, also when the entry method is missing too; with a public class but
\* no entry method it fails with the other error; it succeeds exactly when
\* both are there, with or without a package clause.
C24_EntryPointErrors ==
    calc.op = "detected" =>
        /\ ScanSource(calc.text) \in Sources
        /\ MsgNoPublicClass # MsgNoMainMethod
        /\ ~HasPublicClass(calc.text) => calc.found = Throw(MsgNoPublicClass)
        /\ (HasPublicClass(calc.text) /\ ~HasMainMethod(calc.text)) =>
              calc.found = Throw(MsgNoMainMethod)
        /\ calc.found.ok <=> (HasPublicClass(calc.text) /\ HasMainMethod(calc.text))
        /\ calc.found.ok => calc.found.value.mainClass = <<"Main">>
        /\ (calc.found.ok /\ ~HasPackageClause(calc.text)) =>
              calc.found.value.packageName = None

\* C24 witness: neither a public class nor an entry method, and the
\* missing-class error.
C24_Witness ==
    /\ calc.op = "detected"
    /\ calc.text = <<PlainClassHeader, PlainMainHeader>>
    /\ calc.found = Throw(MsgNoPublicClass)

\* ------------------------------------- two invocations of the Java strategy
\* faulty variant: the verdict is taken on all that javac and java printed
runJavaTry_MatchOnAllOutput(compileResult, runResult, expected) ==
    IF CompileFailed(compileResult)
    THEN Throw(CompileErrorMessage(compileResult))
    ELSE Return([SampleResult(runResult, expected) EXCEPT
                    !.matched = ComputeMatched(compileResult.stdout \o runResult.stdout,
                                               expected)])

\* the try block of runJavaSample as a function of what its two runProcess
\* calls resolved with
runJavaTry(compileResult, runResult, expected) ==
    IF CompileFailed(compileResult)
    THEN Throw(CompileErrorMessage(compileResult))
    ELSE Return(SampleResult(runResult, expected))

\* what a compiler and a runtime can resolve with
CompileResults ==
    [stdout : {<<>>, <<"a">>}, stderr : {<<>>, <<"a">>}, exitCode : {Some(0), Some(1)}]
RunResults(stdout) ==
    [stdout : {stdout}, stderr : {<<>>, <<"a">>}, exitCode : ExitCodes]

\* two invocations with the same run-step stdout and the same expectation
InitIndep ==
    /\ PipelineOff
    /\ conc = ConcIdle
    /\ \E expected \in {NullishToUndefined(e) : e \in ExpectedOutputs},
          stdout \in StrUpTo(OutChars, MaxOut),
          compileA \in CompileResults, compileB \in CompileResults :
          \E runA \in RunResults(stdout), runB \in RunResults(stdout) :
              calc = [op |-> "invocations", expected |-> expected,
                      compileA |-> compileA, runA |-> runA,
                      compileB |-> compileB, runB |-> runB]

\* both invocations complete their try block
RunBoth ==
    /\ calc.op = "invocations"
    /\ calc' = [calc EXCEPT
                  !.op = "completed",
                  !.compileA = [result |-> @,
                                outcome |-> runJavaTry(@, calc.runA, calc.expected)],
                  !.compileB = [result |-> @,
                                outcome |-> runJavaTry(@, calc.runB, calc.expected)]]
    /\ UNCHANGED <<pipeVars, conc>>

NextIndep ==
    \/ RunBoth

SpecIndep == InitIndep /\ [][NextIndep]_vars

\* C25: two invocations whose compilers succeeded, with the same run-step
\* stdout and the same expected output, yield the same matched whatever the
\* compilers printed and whatever stderr and exit code the runs had; each
\* returns the stdout, stderr and exit code of its run step.
C25_VerdictDependsOnRunStdoutOnly ==
    (/\ calc.op = "completed"
     /\ calc.compileA.result.exitCode = Some(0)
     /\ calc.compileB.result.exitCode = Some(0)) =>
        /\ calc.compileA.outcome.ok /\ calc.compileB.outcome.ok
        /\ calc.compileA.outcome.value.matched = calc.compileB.outcome.value.matched
        /\ calc.compileA.outcome.value.stdout = calc.runA.stdout
        /\ calc.compileA.outcome.value.stderr = calc.runA.stderr
        /\ calc.compileA.outcome.value.exitCode = calc.runA.exitCode
        /\ calc.compileB.outcome.value.stdout = calc.runB.stdout
        /\ calc.compileB.outcome.value.stderr = calc.runB.stderr
        /\ calc.compileB.outcome.value.exitCode = calc.runB.exitCode

\* C25 witness: one compiler printed warnings and its run failed with
\* output on stderr, the other was silent; both verdicts are "matched".
C25_Witness ==
    /\ calc.op = "completed"
    /\ calc.compileA.result = [stdout |-> <<"a">>, stderr |-> <<"a">>,
                               exitCode |-> Some(0)]
    /\ calc.compileB.result = [stdout |-> <<>>, stderr |-> <<>>, exitCode |-> Some(0)]
    /\ calc.runA.stderr = <<"a">> /\ calc.runA.exitCode = Some(1)
    /\ calc.runB.stderr = <<>> /\ calc.runB.exitCode = Some(0)
    /\ calc.compileA.outcome.ok /\ calc.compileB.outcome.ok
    /\ calc.compileA.outcome.value.matched = Some(TRUE)
    /\ calc.compileB.outcome.value.matched = Some(TRUE)

\* ------------------------------------------------------------ termination
\* the event loop runs every continuation and file-system callback that is
\* ready, and every launched process reports its termination (or its launch
\* error) in the end
Fairness ==
    /\ WF_vars(HandleRunSampleTest)
    /\ WF_vars(StatDone)
    /\ WF_vars(ReadFileDone)
    /\ WF_vars(MkdtempDone)
    /\ WF_vars(ChildError)
    /\ WF_vars(ChildClose)
    /\ WF_vars(AfterPythonRun)
    /\ WF_vars(AfterCompile)
    /\ WF_vars(AfterRun)
    /\ WF_vars(RmDone)

\* the requests without expectation: the verdict plays no part in termination
InitLive == Init /\ req.expectedOutput = None /\ req.sampleInput # <<"5", "\n">>

SpecLive == InitLive /\ [][Next]_vars /\ Fairness

\* as long as a launched process is running the call is not over: nothing
\* is posted, no removal is started, and the workspace is still there
C26_WaitsForItsProcess ==
    (child # None /\ child.started /\ ~child.closed) =>
        /\ pc \in {"py_run", "java_compile", "java_run"}
        /\ promise.state = "pending"
        /\ posted = <<>>
        /\ Removals = {}
        /\ tempDir # None => tempDir.val \in tmpdirs

\* a call is over only when each process it launched has reported its end
C26_OverOnlyAfterEveryProcess ==
    pc = "done" =>
        \A i \in EventIndexes :
            events[i].type = "spawn" =>
                \E j \in EventIndexes :
                    /\ i < j
                    /\ events[j].type \in {"error", "close"}
                    /\ events[j].command = events[i].command

WorkspaceCreated == tempDir # None
WorkspaceGone == tempDir # None /\ tempDir.val \notin tmpdirs
RemovalAttempted == Removals # {}

\* C26 as stated: the call completes exactly when its processes have all
\* ended; if they all end, the call completes and the workspace is destroyed.
C26_CompletesAndDestroysWorkspace ==
    /\ [](C26_WaitsForItsProcess /\ C26_OverOnlyAfterEveryProcess)
    /\ <>(pc = "done")
    /\ WorkspaceCreated ~> WorkspaceGone

\* C26: the call completes exactly when its processes have all ended; if
\* they all end, the call completes and the removal of the workspace is
\* attempted, after which the workspace exists only if that removal failed.
C26_CompletesAndAttemptsRemoval ==
    /\ [](C26_WaitsForItsProcess /\ C26_OverOnlyAfterEveryProcess)
    /\ <>(pc = "done")
    /\ WorkspaceCreated ~> RemovalAttempted
    /\ []((pc = "done" /\ WorkspaceCreated /\ ~WorkspaceGone) =>
            \E i \in Removals : ~events[i].removed)

\* C26 witness: compiler and runtime have terminated, the call is over and
\* the workspace is gone.
C26_Witness ==
    /\ Done /\ WorkspaceGone
    /\ child.command = JavaExecutables.java /\ child.started /\ child.closed
    /\ \E i \in Removals : events[i].removed

\* ------------------------------------------- a compiler without exit code
\* the compiler has terminated without an exit code
CompilerDiedWithoutCode ==
    \E i \in EventIndexes :
        /\ events[i].type = "close"
        /\ events[i].command = JavaExecutables.javac
        /\ events[i].code = None

\* the run step is launched only after a compiler that exited with 0
C27_RunOnlyAfterExitZero ==
    SpawnsOf(JavaExecutables.java) # {} =>
        \A i \in EventIndexes :
            (events[i].type = "close" /\ events[i].command = JavaExecutables.javac)
                => events[i].code = Some(0)

\* C27 as stated: a compiler that ends without exit code makes the call fail
\* with the compile error, no run is launched, and the workspace is removed.
C27_NullExitFailsAndWorkspaceRemoved ==
    /\ C27_RunOnlyAfterExitZero
    /\ CompilerDiedWithoutCode =>
          /\ SpawnsOf(JavaExecutables.java) = {}
          /\ pc = "done" =>
                /\ posted = <<ResultMessage(Throw(CompileErrorMessage(promise.value)))>>
                /\ WorkspaceGone

\* C27: a compiler that ends without exit code makes the call fail with the
\* compile error, no run is launched, and the removal of the workspace is
\* attempted once: the workspace is gone unless that removal failed.
C27_NullExitIsCompileFailure ==
    /\ C27_RunOnlyAfterExitZero
    /\ CompilerDiedWithoutCode =>
          /\ SpawnsOf(JavaExecutables.java) = {}
          /\ pc = "done" =>
                /\ posted = <<ResultMessage(Throw(CompileErrorMessage(promise.value)))>>
                /\ Cardinality(Removals) = 1
                /\ WorkspaceGone \/ \E i \in Removals : ~events[i].removed

\* C27 witness: the compiler was killed, the call has failed with what the
\* compiler had printed, and the workspace is gone.
C27_Witness ==
    /\ Done /\ CompilerDiedWithoutCode /\ WorkspaceGone
    /\ posted[1].error = CompilePrefix \o <<"a">>

\* ------------------------------------------------------ settling once
\* C28: the promise of runProcess settles once. After 'error' it is rejected
\* with the launch error and the 'close' that follows does not make it a
\* result; after a 'close' without 'error' it is resolved with the buffers
\* and the exit code; and once it is settled neither listener, were it
\* called again, would change it.
C28_SettlesOnce ==
    child # None =>
        /\ child.errorEmitted => promise = Rejected(MsgSpawn(child.command))
        /\ (child.closed /\ ~child.errorEmitted) =>
              \E code \in ExitCodes :
                  /\ ClosedWith(code)
                  /\ promise = Resolved([stdout |-> child.stdout,
                                         stderr |-> child.stderr,
                                         exitCode |-> code])
        /\ promise.state \in {"resolved", "rejected"} =>
              /\ Settle(OnError(MsgSpawn(child.command))) = promise
              /\ \A code \in ExitCodes \cup {Some(-2)} :
                    Settle(OnClose(code)) = promise

\* C28 witness: 'error' and then 'close' were delivered, and the call is
\* still rejected.
C28_Witness ==
    /\ child # None
    /\ child.errorEmitted /\ child.closed
    /\ ClosedWith(Some(-2))
    /\ promise.state = "rejected"

\* ------------------------------------------------- the order of the checks
\* the error of the first check that fails, in the order stated: file path,
\* sample input, relative path, existence of the file (or the error of the
\* stat itself), language, and for Java the entry point
C29_FirstFailure ==
    IF req.filePath = <<>> THEN Some(MsgNoFilePath)
    ELSE IF req.sampleInput = <<>> THEN Some(MsgNoSampleInput)
    ELSE IF ~IsAbsolute(req.filePath) /\ ~workspaceFolder THEN Some(MsgNeedAbsolute)
    ELSE IF fileKind = "missing" THEN Some(MsgFileMissing)
    ELSE IF fileKind = "denied" THEN Some(MsgStatDenied)
    ELSE IF req.language \notin {"python", "java"}
    THEN Some(MsgUnsupported(req.language))
    ELSE IF req.language = "java" /\ fileKind = "dir" THEN Some(MsgReadIsDirectory)
    ELSE IF req.language = "java" /\ source.publicClass = None
    THEN Some(MsgNoPublicClass)
    ELSE IF req.language = "java" /\ ~source.mainMethod THEN Some(MsgNoMainMethod)
    ELSE None

\* C29: the error reported is that of the first failing check in the order
\* file path, sample input, relative path, existence, language, entry point,
\* and a request that fails a check launches nothing; a request that passes
\* them all reports none of these errors.
C29_ChecksInOrder ==
    /\ C29_FirstFailure # None =>
          /\ ~AnySpawn /\ ~AnyMkdtemp
          /\ pc = "done" => posted = <<ResultMessage(Throw(C29_FirstFailure.val))>>
    /\ (C29_FirstFailure = None /\ pc = "done") =>
          \/ posted[1].ok
          \/ posted[1].error \notin
                {MsgNoFilePath, MsgNoSampleInput, MsgNeedAbsolute, MsgFileMissing,
                 MsgUnsupported(req.language), MsgNoPublicClass, MsgNoMainMethod}

\* C29 witness: an unsupported language with an empty sample input and a
\* missing file is reported as a missing sample input.
C29_Witness ==
    /\ Done
    /\ req.language = "cpp" /\ req.filePath = <<"/", "s">>
    /\ req.sampleInput = <<>> /\ fileKind = "missing"
    /\ posted[1].error = MsgNoSampleInput

\* ------------------------------------------------------------ the dashboard
\* the number of sample tests the user triggers, and the problems of the list
MaxRuns == 3
Problems == {1, 2}

\* the sample input of a problem, and the file path field of the form
DashSampleInputs == {<<>>, <<"5">>}
DashFilePaths == {<<>>, <<"/", "w", "/", "s">>}

\* the webview after its script has run: nothing is selected, the list is
\* empty and the table has no row of a problem, the file path field is
\* empty, and the sample-test area (its status text, and the output of a run
\* when one is displayed) is empty; problemset is state.problemset, rows the
\* problems that have a row in the table; inFlight holds the runs whose
\* result has not arrived yet, and restoreOver tells whether the provider's
\* restore of the session has answered
InitDash ==
    /\ PipelineOff
    /\ calc = CalcIdle
    /\ conc = [op |-> "dashboard", restoreOver |-> FALSE,
               currentProblemId |-> None, problemset |-> {}, rows |-> {},
               samples |-> <<>>, filePath |-> <<>>,
               sampleTestStatus |-> "", shown |-> None,
               inFlight |-> {}, runs |-> 0]

resetSampleTestUI(d) == [d EXCEPT !.sampleTestStatus = "", !.shown = None]

clearCurrentProblem(d) ==
    resetSampleTestUI([d EXCEPT !.currentProblemId = None, !.samples = <<>>])

\* renderProblemDetail: the problem becomes the selected one, its samples
\* are kept, and the sample-test area is reset
renderProblemDetail(d, problemId, sampleInput) ==
    resetSampleTestUI([d EXCEPT !.currentProblemId = Some(problemId),
                                !.samples = sampleInput])

\* renderProblemset: the table gets a row for every problem of the list;
\* the selection is kept when the new list holds the selected problem, and
\* cleared otherwise
renderProblemset(d, list) ==
    LET listed == [d EXCEPT !.problemset = list, !.rows = list] IN
    IF d.currentProblemId # None /\ d.currentProblemId.val \in list
    THEN listed
    ELSE clearCurrentProblem(listed)

\* the 'problemset' message
RenderProblemset(list) ==
    /\ conc.op = "dashboard"
    /\ conc' = renderProblemset(conc, list)
    /\ UNCHANGED <<pipeVars, calc>>

\* the submit listener of the problem set form: the table is emptied but
\* for a placeholder row, state.problemset stays, and the list is asked for
ProblemsetFormSubmit ==
    /\ conc.op = "dashboard"
    /\ conc' = [conc EXCEPT !.rows = {}]
    /\ UNCHANGED <<pipeVars, calc>>

\* getAdjacentProblemId: the neighbours of the selected problem in
\* state.problemset, which is sorted by problem id
AdjacentProblemIds(d) ==
    IF d.currentProblemId = None \/ d.currentProblemId.val \notin d.problemset
    THEN {}
    ELSE {p \in d.problemset :
            /\ p # d.currentProblemId.val
            /\ ~\E q \in d.problemset :
                   \/ p < q /\ q < d.currentProblemId.val
                   \/ d.currentProblemId.val < q /\ q < p}

\* selectProblemById, from a click on a row of the table or on the previous
\* and next buttons: when the table has a row of the problem, the problem is
\* selected and its detail is asked for, the sample-test area being left as
\* it is; without such a row nothing changes
SelectProblemById(problemId) ==
    /\ conc.op = "dashboard"
    /\ problemId \in conc.rows \cup AdjacentProblemIds(conc)
    /\ conc' = IF problemId \in conc.rows
               THEN [conc EXCEPT !.currentProblemId = Some(problemId)]
               ELSE conc
    /\ UNCHANGED <<pipeVars, calc>>

\* the 'problem' message
RenderProblemDetail(problemId, sampleInput) ==
    /\ conc.op = "dashboard"
    /\ conc' = renderProblemDetail(conc, problemId, sampleInput)
    /\ UNCHANGED <<pipeVars, calc>>

\* the 'loginSuccess' message
LoginSuccess ==
    /\ conc.op = "dashboard"
    /\ conc' = resetSampleTestUI(clearCurrentProblem(conc))
    /\ UNCHANGED <<pipeVars, calc>>

\* Number(message.currentProblemId) where the provider sends null or a
\* number: null becomes 0, which is finite
NumberOfProblemId(problemId) ==
    IF problemId = Null THEN Some(0) ELSE Some(problemId.val)

\* the 'sessionRestored' message, with which tryRestoreSession answers at
\* most once: the selected problem or null, the cached list and the cached
\* detail of a problem, where there are any
SessionRestored(problemId, list, cached) ==
    /\ conc.op = "dashboard" /\ ~conc.restoreOver
    /\ LET restored == [conc EXCEPT
                          !.restoreOver = TRUE,
                          !.currentProblemId = NumberOfProblemId(problemId)]
           cachedProblemValid ==
               /\ cached # None
               /\ Some(cached.val.problemId) = restored.currentProblemId
           listed == IF list # None THEN renderProblemset(restored, list.val)
                     ELSE IF restored.currentProblemId = None
                     THEN clearCurrentProblem(restored)
                     ELSE restored
           detailed == IF cachedProblemValid
                       THEN renderProblemDetail(listed, cached.val.problemId,
                                                cached.val.sampleInput)
                       ELSE listed
       IN  conc' = resetSampleTestUI(detailed)
    /\ UNCHANGED <<pipeVars, calc>>

\* the 'savedCredentials' message, the other answer of tryRestoreSession:
\* only the login form changes
SavedCredentialsArrive ==
    /\ conc.op = "dashboard" /\ ~conc.restoreOver
    /\ conc' = [conc EXCEPT !.restoreOver = TRUE]
    /\ UNCHANGED <<pipeVars, calc>>

\* the user types into the file path field, or a 'fileCreated' message
\* fills it
FilePathChanges(path) ==
    /\ conc.op = "dashboard"
    /\ conc.filePath # path
    /\ conc' = [conc EXCEPT !.filePath = path]
    /\ UNCHANGED <<pipeVars, calc>>

\* triggerSampleTest: without a selected problem (null, or the number 0), a
\* sample input or a file path only the status text changes; otherwise the
\* area shows "running" and the request is posted with the selected
\* problem's id
TriggerSampleTest ==
    /\ conc.op = "dashboard"
    /\ IF conc.currentProblemId = None \/ conc.currentProblemId.val = 0
       THEN conc' = [conc EXCEPT !.sampleTestStatus =
                                    "error: select a problem first"]
       ELSE IF Len(Trim(conc.samples)) = 0
       THEN conc' = [conc EXCEPT !.sampleTestStatus =
                                    "error: the problem has no sample input"]
       ELSE IF Len(Trim(conc.filePath)) = 0
       THEN conc' = [conc EXCEPT !.sampleTestStatus =
                                    "error: fill in the file path first"]
       ELSE /\ conc.runs < MaxRuns
            /\ conc' = [conc EXCEPT
                          !.sampleTestStatus = "running",
                          !.shown = None,
                          !.runs = @ + 1,
                          !.inFlight = @ \cup
                              {[run |-> conc.runs + 1,
                                problemId |-> conc.currentProblemId.val]}]
    /\ UNCHANGED <<pipeVars, calc>>

\* handleRunSampleTest posts the result of a run, in whatever order the runs
\* end, and the message listener hands it to renderSampleTestResult: a
\* failed run leaves its error as the status and hides the output
SampleTestResultArrives(payload, ok) ==
    /\ conc.op = "dashboard"
    /\ payload \in conc.inFlight
    /\ conc' = [conc EXCEPT
                  !.sampleTestStatus = IF ok THEN "done" ELSE "failed",
                  !.shown = IF ok THEN Some(payload) ELSE None,
                  !.inFlight = @ \ {payload}]
    /\ UNCHANGED <<pipeVars, calc>>

NextDash ==
    \/ \E list \in SUBSET Problems : RenderProblemset(list)
    \/ ProblemsetFormSubmit
    \/ \E problemId \in Problems : SelectProblemById(problemId)
    \/ \E problemId \in Problems, sampleInput \in DashSampleInputs :
          RenderProblemDetail(problemId, sampleInput)
    \/ LoginSuccess
    \/ \E problemId \in {Null} \cup {Some(p) : p \in Problems},
          list \in {None} \cup {Some(l) : l \in SUBSET Problems},
          cached \in {None} \cup
              {Some(c) : c \in [problemId : Problems,
                                sampleInput : DashSampleInputs]} :
          SessionRestored(problemId, list, cached)
    \/ SavedCredentialsArrive
    \/ \E path \in DashFilePaths : FilePathChanges(path)
    \/ TriggerSampleTest
    \/ \E payload \in [run : 1..MaxRuns, problemId : Problems], ok \in BOOLEAN :
          SampleTestResultArrives(payload, ok)

SpecDash == InitDash /\ [][NextDash]_vars

\* C30 as stated: the result shown is that of the sample test triggered last
\* and of the problem now selected.
C30_ShownResultIsCurrent ==
    (conc.op = "dashboard" /\ conc.shown # None) =>
        /\ conc.shown.val.run = conc.runs
        /\ conc.currentProblemId = Some(conc.shown.val.problemId)

\* ------------------------------------------- submitting with automatic login
\* error texts: a Latin text is the sequence of its characters, a Chinese
\* phrase is one word; 'qing-xian-deng-lu' is the phrase of ensureSession's
\* error that shouldAttemptRelogin looks for, 'chong-xin-deng-lu' the other
MsgLoginFirst == <<"qing-xian-deng-lu", "zai-xian-ping-ce-xi-tong">>
MsgWriteFailed == <<"E", "A", "C", "C", "E", "S">>
MsgFileNotFound == <<"F", "i", "l", "e", "N", "o", "t", "F", "o", "u", "n", "d">>
MsgAuthRequired ==
    <<"A", "U", "T", "H", "_", "R", "E", "Q", "U", "I", "R", "E", "D">>
MsgAuthRequiredMixed ==
    <<"A", "u", "t", "h", "_", "R", "e", "q", "u", "i", "r", "e", "d">>
MsgAuthRequiredLower ==
    <<"a", "u", "t", "h", "_", "r", "e", "q", "u", "i", "r", "e", "d">>
MsgNetwork == <<"E", "T", "I", "M", "E", "D", "O", "U", "T">>

\* String.prototype.toLowerCase: every upper-case Latin letter becomes its
\* lower-case letter, every other character stays
UpperCaseLetters ==
    <<"A", "B", "C", "D", "E", "F", "G", "H", "I", "J", "K", "L", "M",
      "N", "O", "P", "Q", "R", "S", "T", "U", "V", "W", "X", "Y", "Z">>
LowerCaseLetters ==
    <<"a", "b", "c", "d", "e", "f", "g", "h", "i", "j", "k", "l", "m",
      "n", "o", "p", "q", "r", "s", "t", "u", "v", "w", "x", "y", "z">>
ToLowerCase(message) ==
    [i \in 1..Len(message) |->
        IF \E k \in 1..26 : UpperCaseLetters[k] = message[i]
        THEN LowerCaseLetters[CHOOSE k \in 1..26 :
                                  UpperCaseLetters[k] = message[i]]
        ELSE message[i]]

\* String.prototype.includes: the text occurs somewhere in the message
Includes(message, text) ==
    \E i \in 0..(Len(message) - Len(text)) :
        SubSeq(message, i + 1, i + Len(text)) = text

\* faulty variant: every failure of the operation is taken for an expired login
shouldAttemptRelogin_Always(error) == TRUE

shouldAttemptRelogin(error) ==
    /\ error # None
    /\ error.val # <<>>
    /\ LET normalized == ToLowerCase(error.val) IN
          \/ Includes(normalized, MsgAuthRequiredLower)
          \/ Includes(normalized, <<"chong-xin-deng-lu">>)
          \/ Includes(normalized, <<"qing-xian-deng-lu">>)

\* the messages of the errors the judge script, the file system and the
\* provider raise
JudgeErrors == {MsgAuthRequired, MsgAuthRequiredMixed,
                <<"e", ":", " ">> \o MsgAuthRequiredLower,
                <<"qing", "chong-xin-deng-lu">>, MsgNetwork, <<>>}
ReadErrors == {MsgNeedAbsolute, MsgFileNotFound}
Results(errors, values) ==
    {Return(v) : v \in values} \cup {Throw(e) : e \in errors}

SavedCredentials == {None} \cup
    {Some(c) : c \in [rememberPassword : BOOLEAN, passwordHash : BOOLEAN]}

\* the provider when a submitSolution message arrives, the session restore
\* being over: the session, the saved credentials, and the first run of the
\* operation about to start
InitSubmit ==
    /\ PipelineOff
    /\ conc = ConcIdle
    /\ \E session \in BOOLEAN, saved \in SavedCredentials :
          calc = [op |-> "submit", pc |-> "ensureSession", run |-> 1,
                  session |-> session, savedCredentials |-> saved,
                  runErrors |-> <<>>, executed |-> <<>>, loggedIn |-> FALSE,
                  posted |-> <<>>, outcome |-> None]

\* handleMessage: the request ends, an error being posted to the webview
Finish(c, outcome) ==
    [c EXCEPT !.pc = "done", !.outcome = Some(outcome),
              !.posted = IF outcome.ok THEN @ ELSE Append(@, "error")]

\* tryAutoLogin up to its first await: without a remembered password hash it
\* answers false, otherwise the login action is started
tryAutoLogin(c, error) ==
    IF \/ c.savedCredentials = None
       \/ ~c.savedCredentials.val.rememberPassword
       \/ ~c.savedCredentials.val.passwordHash
    THEN Finish(c, Throw(error))
    ELSE [c EXCEPT !.pc = "login"]

\* withAutoRelogin: a run of the operation has thrown
withAutoRelogin(c, error) ==
    LET failed == [c EXCEPT !.runErrors = Append(@, error)] IN
    IF c.run = 1
    THEN IF shouldAttemptRelogin(Some(error))
         THEN tryAutoLogin(failed, error)
         ELSE Finish(failed, Throw(error))
    ELSE Finish(failed, Throw(error))

\* ensureSession, the restore promise being settled
EnsureSession ==
    /\ calc.op = "submit" /\ calc.pc = "ensureSession"
    /\ calc' = IF calc.session
               THEN [calc EXCEPT !.pc = "readFile"]
               ELSE withAutoRelogin(calc, MsgLoginFirst)
    /\ UNCHANGED <<pipeVars, conc>>

\* resolveFileUri and the read of the source file
ReadSourceDone(r) ==
    /\ calc.op = "submit" /\ calc.pc = "readFile"
    /\ calc' = IF r.ok
               THEN [calc EXCEPT !.pc = "submit"]
               ELSE withAutoRelogin(calc, r.error)
    /\ UNCHANGED <<pipeVars, conc>>

\* the 'submit_solution' action has run; its answer may carry a solution id
SubmitDone(r) ==
    /\ calc.op = "submit" /\ calc.pc = "submit"
    /\ LET ran == [calc EXCEPT !.executed = Append(@, "submit_solution")] IN
       calc' = IF ~r.ok
               THEN withAutoRelogin(ran, r.error)
               ELSE LET shown == [ran EXCEPT !.posted = Append(@, "submission")]
                    IN IF r.value # None
                       THEN [shown EXCEPT !.pc = "poll"]
                       ELSE Finish(shown, Return("void"))
    /\ UNCHANGED <<pipeVars, conc>>

\* the 'poll_submission' action has run
PollDone(r) ==
    /\ calc.op = "submit" /\ calc.pc = "poll"
    /\ LET ran == [calc EXCEPT !.executed = Append(@, "poll_submission")] IN
       calc' = IF ~r.ok
               THEN withAutoRelogin(ran, r.error)
               ELSE Finish([ran EXCEPT !.posted = Append(@, "submissionStatus")],
                           Return("void"))
    /\ UNCHANGED <<pipeVars, conc>>

\* tryAutoLoginInternal: the 'login' action has run; a failure clears the
\* session, and recordLogin then forgets the password
LoginDone(r) ==
    /\ calc.op = "submit" /\ calc.pc = "login"
    /\ LET ran == [calc EXCEPT !.executed = Append(@, "login")] IN
       calc' = IF r.ok
               THEN [ran EXCEPT !.session = TRUE, !.pc = "recordLogin"]
               ELSE [ran EXCEPT
                       !.session = FALSE, !.pc = "recordFailure",
                       !.savedCredentials =
                           Some([rememberPassword |-> FALSE,
                                 passwordHash |-> FALSE])]
    /\ UNCHANGED <<pipeVars, conc>>

\* recordLogin after a successful login: the session file is written, and the
\* operation runs again; a failed write is a failed login
RecordLoginDone(written) ==
    /\ calc.op = "submit" /\ calc.pc = "recordLogin"
    /\ calc' = IF written
               THEN [calc EXCEPT !.loggedIn = TRUE, !.run = 2,
                                 !.pc = "ensureSession"]
               ELSE [calc EXCEPT
                       !.session = FALSE, !.pc = "recordFailure",
                       !.savedCredentials =
                           Some([rememberPassword |-> FALSE,
                                 passwordHash |-> FALSE])]
    /\ UNCHANGED <<pipeVars, conc>>

\* recordLogin after a failed login: tryAutoLogin answers false and the first
\* error is thrown again, or the write fails and its error is thrown
RecordFailureDone(written) ==
    /\ calc.op = "submit" /\ calc.pc = "recordFailure"
    /\ calc' = IF written
               THEN Finish(calc, Throw(calc.runErrors[1]))
               ELSE Finish(calc, Throw(MsgWriteFailed))
    /\ UNCHANGED <<pipeVars, conc>>

NextSubmit ==
    \/ EnsureSession
    \/ \E r \in Results(ReadErrors, {"source"}) : ReadSourceDone(r)
    \/ \E r \in Results(JudgeErrors, {None, Some(1)}) : SubmitDone(r)
    \/ \E r \in Results(JudgeErrors, {"status"}) : PollDone(r)
    \/ \E r \in Results(JudgeErrors, {"cookies"}) : LoginDone(r)
    \/ \E written \in BOOLEAN : RecordLoginDone(written)
    \/ \E written \in BOOLEAN : RecordFailureDone(written)

SpecSubmit == InitSubmit /\ [][NextSubmit]_vars

\* how many times an action of the judge script has been executed
Executions(action) ==
    Cardinality({i \in 1..Len(calc.executed) : calc.executed[i] = action})

\* C31 as stated: a submitSolution request executes 'submit_solution' at most
\* once, whatever the submit, the polling and the automatic login do.
C31_SubmitsAtMostOnce ==
    calc.op = "submit" => Executions("submit_solution") <= 1

\* the messages that tell of a missing or an expired login, whatever the case
\* of their letters
AuthenticationMessages ==
    {MsgLoginFirst, MsgAuthRequired, MsgAuthRequiredMixed,
     <<"e", ":", " ">> \o MsgAuthRequiredLower, <<"qing", "chong-xin-deng-lu">>}

\* C32: the operation runs at most twice; it runs again only after an
\* authentication-related first error and a successful automatic login; the
\* error of the second run is thrown with no further login or run; any other
\* first error is thrown as it is, no login being attempted.
C32_AtMostOneRetry ==
    calc.op = "submit" =>
        /\ calc.run <= 2 /\ Len(calc.runErrors) <= 2
        /\ Executions("login") <= 1
        /\ calc.run = 2 =>
              /\ Len(calc.runErrors) >= 1
              /\ calc.runErrors[1] \in AuthenticationMessages
              /\ calc.loggedIn /\ Executions("login") = 1
        /\ Len(calc.runErrors) = 2 =>
              /\ calc.pc = "done"
              /\ calc.outcome = Some(Throw(calc.runErrors[2]))
        /\ (/\ Len(calc.runErrors) >= 1
            /\ calc.runErrors[1] \notin AuthenticationMessages) =>
              /\ calc.pc = "done" /\ calc.run = 1
              /\ calc.outcome = Some(Throw(calc.runErrors[1]))
              /\ Executions("login") = 0

\* C32 witness: the first run has failed with an authentication error in
\* mixed case, the second run has failed after a successful login, and its
\* error is the request's outcome.
C32_Witness ==
    /\ calc.op = "submit" /\ calc.pc = "done"
    /\ calc.run = 2 /\ Len(calc.runErrors) = 2
    /\ calc.runErrors[1] = MsgAuthRequiredMixed
    /\ calc.runErrors[2] = MsgAuthRequired
    /\ calc.executed = <<"submit_solution", "login", "submit_solution">>

\* ------------------------------------------------ the Python dependency setup
\* the number of execute calls made on the PythonService
MaxCalls == 3
Calls == 1..MaxCalls

\* what a python process of the setup does: it exits with 0, exits with
\* another code, exits with another code saying that pip is missing, or
\* cannot be launched
ProcessResults == {"zero", "nonzero", "no-pip", "spawn-error"}

\* a PythonService after construction: nothing is ready and no setup runs; a
\* setup is written as its step and its outcome, a call as its position and
\* the setup it awaits
InitDeps ==
    /\ PipelineOff
    /\ calc = CalcIdle
    /\ conc = [op |-> "deps", dependenciesReady |-> FALSE,
               dependencySetupPromise |-> None, setups |-> <<>>,
               calls |-> [c \in Calls |-> [pc |-> "idle", awaits |-> 0]],
               scripts |-> {}]

\* runPython is called: the action script of a call is started
runPython(d, c) ==
    [d EXCEPT !.calls[c].pc = "running",
              !.scripts = @ \cup {[call |-> c, ready |-> d.dependenciesReady]}]

StartSetup(d, c) ==
    [d EXCEPT !.setups = Append(@, [step |-> "check", outcome |-> "pending"]),
              !.dependencySetupPromise = Some(Len(d.setups) + 1),
              !.calls[c] = [pc |-> "waiting", awaits |-> Len(d.setups) + 1]]

\* faulty variant: a call that finds nothing ready starts a setup of its own
ensureDependencies_NoShare(d, c) ==
    IF d.dependenciesReady THEN runPython(d, c) ELSE StartSetup(d, c)

\* ensureDependencies up to its await
ensureDependencies(d, c) ==
    IF d.dependenciesReady
    THEN runPython(d, c)
    ELSE IF d.dependencySetupPromise = None
         THEN StartSetup(d, c)
         ELSE [d EXCEPT !.calls[c] =
                  [pc |-> "waiting", awaits |-> d.dependencySetupPromise.val]]

\* execute is called
Execute(c) ==
    /\ conc.op = "deps" /\ conc.calls[c].pc = "idle"
    /\ conc' = ensureDependencies(conc, c)
    /\ UNCHANGED <<pipeVars, calc>>

\* the setup promise settles and its finally callback forgets it
SettleSetup(d, s, outcome) ==
    [d EXCEPT !.setups[s] = [step |-> "over", outcome |-> outcome],
              !.dependenciesReady = IF outcome = "resolved" THEN TRUE ELSE @,
              !.dependencySetupPromise = None]

\* installDependenciesIfNeeded and installDependencies: the process of the
\* current step of a setup has ended
installDependenciesIfNeeded(d, s, result) ==
    LET step == d.setups[s].step
        goto(next) == [d EXCEPT !.setups[s].step = next]
    IN  IF result = "spawn-error" THEN SettleSetup(d, s, "rejected")
        ELSE IF step = "check"
        THEN IF result = "zero" THEN SettleSetup(d, s, "resolved")
             ELSE goto("install")
        ELSE IF step = "install"
        THEN IF result = "zero" THEN goto("verify")
             ELSE IF result = "no-pip" THEN goto("ensurepip")
             ELSE SettleSetup(d, s, "rejected")
        ELSE IF step = "ensurepip"
        THEN IF result = "zero" THEN goto("reinstall")
             ELSE SettleSetup(d, s, "rejected")
        ELSE IF step = "reinstall"
        THEN IF result = "zero" THEN goto("verify")
             ELSE SettleSetup(d, s, "rejected")
        ELSE IF result = "zero" THEN SettleSetup(d, s, "resolved")
             ELSE SettleSetup(d, s, "rejected")

SetupProcessEnds(s, result) ==
    /\ conc.op = "deps"
    /\ s \in 1..Len(conc.setups) /\ conc.setups[s].outcome = "pending"
    /\ conc' = installDependenciesIfNeeded(conc, s, result)
    /\ UNCHANGED <<pipeVars, calc>>

\* ensureDependencies after its await: a rejected setup throws, and so does
\* a setup that left nothing ready
EnsureDependenciesResumes(c) ==
    /\ conc.op = "deps" /\ conc.calls[c].pc = "waiting"
    /\ conc.setups[conc.calls[c].awaits].outcome # "pending"
    /\ conc' = IF /\ conc.setups[conc.calls[c].awaits].outcome = "resolved"
                  /\ conc.dependenciesReady
               THEN runPython(conc, c)
               ELSE [conc EXCEPT !.calls[c].pc = "failed"]
    /\ UNCHANGED <<pipeVars, calc>>

\* the action script of a call has ended
RunPythonDone(c) ==
    /\ conc.op = "deps" /\ conc.calls[c].pc = "running"
    /\ conc' = [conc EXCEPT !.calls[c].pc = "done"]
    /\ UNCHANGED <<pipeVars, calc>>

NextDeps ==
    \/ \E c \in Calls : Execute(c)
    \/ \E s \in Calls, result \in ProcessResults : SetupProcessEnds(s, result)
    \/ \E c \in Calls : EnsureDependenciesResumes(c)
    \/ \E c \in Calls : RunPythonDone(c)

SpecDeps == InitDeps /\ [][NextDeps]_vars

SetupsInProgress(d) ==
    {s \in 1..Len(d.setups) : d.setups[s].outcome = "pending"}

\* a call made now starts a setup of its own, joins the one in progress, or
\* needs none
CallJoins ==
    \A c \in Calls :
        (conc.calls[c].pc = "idle" /\ conc'.calls[c].pc # "idle") =>
            IF conc.dependenciesReady
            THEN conc'.setups = conc.setups /\ conc'.calls[c].pc = "running"
            ELSE IF SetupsInProgress(conc) # {}
            THEN /\ conc'.setups = conc.setups
                 /\ conc'.calls[c].pc = "waiting"
                 /\ conc'.calls[c].awaits \in SetupsInProgress(conc)
            ELSE /\ Len(conc'.setups) = Len(conc.setups) + 1
                 /\ conc'.calls[c] = [pc |-> "waiting",
                                      awaits |-> Len(conc'.setups)]
                 /\ conc'.setups[Len(conc'.setups)].outcome = "pending"

\* C33: at most one setup is in progress; a call made meanwhile waits for
\* that setup and starts none; dependenciesReady never goes back to false;
\* no action script starts while it is false; the calls that waited for a
\* failed setup fail, and a call made afterwards starts a fresh setup.
C33_SingleFlight ==
    /\ [](conc.op = "deps" =>
            /\ Cardinality(SetupsInProgress(conc)) <= 1
            /\ \A script \in conc.scripts : script.ready
            /\ \A c \in Calls :
                  conc.calls[c].pc \in {"running", "done"} =>
                      conc.dependenciesReady
            /\ \A c \in Calls :
                  (/\ conc.calls[c].awaits # 0
                   /\ conc.setups[conc.calls[c].awaits].outcome = "rejected") =>
                      conc.calls[c].pc \in {"waiting", "failed"})
    /\ [][conc.op = "deps" =>
            /\ conc.dependenciesReady => conc'.dependenciesReady
            /\ CallJoins]_vars

\* C33 witness: the first setup failed and its two waiting calls failed; the
\* call made afterwards started a second setup, which made everything ready,
\* and its script runs.
C33_Witness ==
    /\ conc.op = "deps"
    /\ Len(conc.setups) = 2
    /\ conc.setups[1].outcome = "rejected" /\ conc.setups[2].outcome = "resolved"
    /\ Cardinality({c \in Calls : conc.calls[c] = [pc |-> "failed", awaits |-> 1]}) = 2
    /\ \E c \in Calls : conc.calls[c] = [pc |-> "running", awaits |-> 2]

\* ------------------------------------------------ the persisted session file
\* the number of messages handled, and the handlers that run at a time
MaxOps == 3
Slots == {1, 2}
SessionLanguages == {"python", "java"}
HandlerKinds == {"login", "fetchProblemset", "fetchProblem", "fetchStatus",
                 "selectProblem", "setPreferredLanguage", "createFile",
                 "updateProblemStatus"}

\* the payload a message of a kind carries: remember and useSavedPassword
\* for a login (the user name and, unless the saved password is used, the
\* password being filled in), the problem for a fetch and a selection, the
\* language for a preference and a new file, the problem and its state for a
\* status update
HandlerArgs(kind) ==
    IF kind = "login" THEN [remember : BOOLEAN, useSavedPassword : BOOLEAN]
    ELSE IF kind = "fetchProblem" THEN {1}
    ELSE IF kind = "selectProblem" THEN {Null, Some(1)}
    ELSE IF kind \in {"setPreferredLanguage", "createFile"} THEN SessionLanguages
    ELSE IF kind = "updateProblemStatus"
    THEN {[problemId |-> 1, accepted |-> TRUE]}
    ELSE {"none"}

\* the errors of an action of the judge script, one of them telling of an
\* expired login
SessionErrors == {MsgAuthRequired, MsgNetwork}

normalizeLanguage(language) ==
    IF language \in {"python", "cpp", "java"} THEN language ELSE "python"

\* savedCredentials as recordLogin sets it; a hash is kept as its presence
Credentials(rememberPassword, passwordHash) ==
    Some([rememberPassword |-> rememberPassword, passwordHash |-> passwordHash])

\* a PersistedSession; passwordHash is kept as its presence, problemset as
\* the is_accepted of the entry of problem 1 in its data, lastProblem as the
\* problem whose detail it holds
PersistedSession(rememberPassword, passwordHash, language) ==
    [rememberPassword |-> rememberPassword, passwordHash |-> passwordHash,
     preferredLanguage |-> language, problemset |-> None,
     currentProblemId |-> None, lastProblem |-> None]

\* a handler: the message it handles, the run of the operation that
\* withAutoRelogin is in, what mutatePersistedSession is called for (the
\* handler's own update, the record of a successful automatic login, or the
\* forgetting of the password after a failed one), its mutator and the object
\* it has read
IdleHandler == [kind |-> "none", arg |-> "none", pc |-> "idle", run |-> 1,
                stage |-> "none", mutator |-> "none", persisted |-> None,
                loginFailed |-> FALSE]

\* the provider when its view is resolved, the restore of the session having
\* just been started over a session file written earlier or over none; or a
\* provider whose user has logged in, with the file that login wrote
InitSession ==
    /\ PipelineOff
    /\ calc = CalcIdle
    /\ \/ \E file \in {None} \cup
                {Some(PersistedSession(r, r /\ p, "python")) : r, p \in BOOLEAN} :
             conc = [op |-> "session", start |-> "resolved", file |-> file,
                     session |-> FALSE, savedCredentials |-> None,
                     preferredLanguage |-> "python",
                     autoLoginPromise |-> "unset", ops |-> 0,
                     handlers |-> [h \in Slots |->
                         IF h = 1
                         THEN [IdleHandler EXCEPT !.kind = "restore",
                                                  !.pc = "restoreRead"]
                         ELSE IdleHandler]]
       \/ \E r \in BOOLEAN :
             conc = [op |-> "session", start |-> "loggedIn",
                     file |-> Some(PersistedSession(r, r, "python")),
                     session |-> TRUE, savedCredentials |-> Credentials(r, r),
                     preferredLanguage |-> "python",
                     autoLoginPromise |-> "unset", ops |-> 0,
                     handlers |-> [h \in Slots |-> IdleHandler]]

\* mutatePersistedSession when there is no file: a session made of what the
\* provider holds in memory
NewPersisted(s) ==
    LET remember == /\ s.savedCredentials # None
                    /\ s.savedCredentials.val.rememberPassword
    IN  PersistedSession(remember,
                         remember /\ s.savedCredentials.val.passwordHash,
                         s.preferredLanguage)

\* mutatePersistedSession when there is a file: the saved credentials
\* replace those read
WithSavedCredentials(persisted, s) ==
    IF s.savedCredentials = None THEN persisted
    ELSE [persisted EXCEPT
            !.rememberPassword = s.savedCredentials.val.rememberPassword,
            !.passwordHash = /\ s.savedCredentials.val.rememberPassword
                             /\ s.savedCredentials.val.passwordHash]

\* the mutators of recordLogin, handleFetchProblemset, handleFetchProblem,
\* updatePersistedCurrentProblem, handleUpdateProblemStatus and
\* persistPreferredLanguage
ApplyMutator(mutator, persisted) ==
    IF mutator.type = "recordLogin"
    THEN LET p == [persisted EXCEPT
                     !.rememberPassword = mutator.rememberPassword,
                     !.passwordHash = /\ mutator.rememberPassword
                                      /\ mutator.passwordHash]
         IN  IF mutator.clearCachedData
             THEN [p EXCEPT !.problemset = None, !.lastProblem = None,
                            !.currentProblemId = None]
             ELSE p
    ELSE IF mutator.type = "problemset"
    THEN [persisted EXCEPT !.problemset = Some([accepted |-> FALSE])]
    ELSE IF mutator.type = "problem"
    THEN [persisted EXCEPT
            !.currentProblemId = Some(mutator.problemId),
            !.lastProblem = IF mutator.data # None
                            THEN Some(mutator.problemId) ELSE None]
    ELSE IF mutator.type = "currentProblem"
    THEN IF mutator.problemId = Null
         THEN [persisted EXCEPT !.currentProblemId = None,
                                !.lastProblem = None]
         ELSE [persisted EXCEPT
                 !.currentProblemId = mutator.problemId,
                 !.lastProblem = IF @ # None /\ @ # mutator.problemId
                                 THEN None ELSE @]
    ELSE IF mutator.type = "problemStatus"
    THEN IF persisted.problemset = None \/ mutator.problemId # 1
         THEN persisted
         ELSE [persisted EXCEPT
                 !.problemset = Some([accepted |-> mutator.accepted])]
    ELSE [persisted EXCEPT !.preferredLanguage = mutator.language]

RecordLoginMutator(rememberPassword, passwordHash, clearCachedData) ==
    [type |-> "recordLogin", rememberPassword |-> rememberPassword,
     passwordHash |-> passwordHash, clearCachedData |-> clearCachedData]

\* writePersistedSession: the snapshot that is written
Snapshot(persisted) ==
    IF persisted.rememberPassword THEN persisted
    ELSE [persisted EXCEPT !.passwordHash = FALSE]

\* handleMessage: a handler has returned ("done") or thrown ("failed", the
\* error being posted); its locals are gone
Ended(s, h, at) ==
    [s EXCEPT !.handlers[h] =
        [IdleHandler EXCEPT !.kind = s.handlers[h].kind,
                            !.arg = s.handlers[h].arg,
                            !.pc = at,
                            !.loginFailed = s.handlers[h].loginFailed]]

\* mutatePersistedSession is called: the read of the file is started
Mutate(s, h, stage, mutator) ==
    [s EXCEPT !.handlers[h].pc = "read", !.handlers[h].stage = stage,
              !.handlers[h].mutator = mutator, !.handlers[h].persisted = None]

\* sessionRestorePromise is not settled yet
RestorePending(s) ==
    \E g \in Slots : s.handlers[g].kind = "restore" /\ s.handlers[g].pc # "done"

\* tryAutoLogin up to its first await: without a remembered password hash it
\* answers false and the error is thrown; the first caller starts the login,
\* a caller during that login awaits the same promise, and a promise that was
\* rejected and therefore never cleared rejects again
TryAutoLogin(s, h) ==
    IF \/ s.savedCredentials = None
       \/ ~s.savedCredentials.val.rememberPassword
       \/ ~s.savedCredentials.val.passwordHash
    THEN Ended(s, h, "failed")
    ELSE IF s.autoLoginPromise = "unset"
    THEN [s EXCEPT !.autoLoginPromise = "pending",
                   !.handlers[h].pc = "autoLogin"]
    ELSE IF s.autoLoginPromise = "pending"
    THEN [s EXCEPT !.handlers[h].pc = "awaitAutoLogin"]
    ELSE Ended(s, h, "failed")

\* withAutoRelogin's catch: a run of the operation has thrown
OperationThrows(s, h, error) ==
    IF s.handlers[h].run = 1 /\ shouldAttemptRelogin(Some(error))
    THEN TryAutoLogin(s, h)
    ELSE Ended(s, h, "failed")

\* executeWithSession's operation up to its first await: ensureSession
\* answers at once when there is a session, awaits the restore while it is
\* under way, and throws otherwise; with a session the action is started
RunOperation(s, h) ==
    IF s.session THEN [s EXCEPT !.handlers[h].pc = "action"]
    ELSE IF RestorePending(s) THEN [s EXCEPT !.handlers[h].pc = "awaitRestore"]
    ELSE OperationThrows(s, h, MsgLoginFirst)

\* withAutoRelogin after a successful automatic login: the operation is run
\* a second time
Rerun(s, h) ==
    RunOperation([s EXCEPT !.handlers[h].run = 2,
                           !.handlers[h].stage = "none",
                           !.handlers[h].mutator = "none",
                           !.handlers[h].persisted = None], h)

RECURSIVE RestoreSettles(_)
\* sessionRestorePromise is fulfilled: the handlers that await it in
\* ensureSession go on, in the order of their slots
RestoreSettles(s) ==
    LET waiting == {g \in Slots : s.handlers[g].pc = "awaitRestore"} IN
    IF waiting = {} THEN s
    ELSE RestoreSettles(
             RunOperation(s, CHOOSE g \in waiting : \A k \in waiting : g <= k))

RECURSIVE AutoLoginSettles(_, _)
\* autoLoginPromise is settled: the handlers that await it in withAutoRelogin
\* run their operation again after a success, and throw otherwise
AutoLoginSettles(s, success) ==
    LET waiting == {g \in Slots : s.handlers[g].pc = "awaitAutoLogin"} IN
    IF waiting = {} THEN s
    ELSE LET g == CHOOSE g \in waiting : \A k \in waiting : g <= k
         IN  AutoLoginSettles(IF success THEN Rerun(s, g)
                              ELSE Ended(s, g, "failed"), success)

\* a message arrives and its handler runs up to its first await
StartHandler(h, kind, arg) ==
    /\ conc.op = "session"
    /\ conc.handlers[h].pc \in {"idle", "done", "failed"}
    /\ conc.ops < MaxOps
    /\ LET s == [conc EXCEPT !.ops = @ + 1,
                             !.handlers[h] = [IdleHandler EXCEPT !.kind = kind,
                                                                 !.arg = arg]]
       IN  conc' =
             IF kind = "login"
             THEN IF /\ arg.useSavedPassword
                     /\ \/ s.savedCredentials = None
                        \/ ~s.savedCredentials.val.passwordHash
                  THEN Ended(s, h, "failed")
                  ELSE [s EXCEPT !.handlers[h].pc = "action"]
             ELSE IF kind \in {"fetchProblemset", "fetchProblem", "fetchStatus"}
             THEN RunOperation(s, h)
             ELSE IF kind = "selectProblem"
             THEN IF s.session
                  THEN Mutate(s, h, "own", [type |-> "currentProblem",
                                            problemId |-> arg])
                  ELSE Ended(s, h, "done")
             ELSE IF kind = "setPreferredLanguage"
             THEN Mutate([s EXCEPT !.preferredLanguage = normalizeLanguage(arg)],
                         h, "own", [type |-> "preferredLanguage",
                                    language |-> normalizeLanguage(arg)])
             ELSE IF kind = "createFile"
             THEN [s EXCEPT !.handlers[h].pc = "files"]
             ELSE Mutate(s, h, "own", [type |-> "problemStatus",
                                       problemId |-> arg.problemId,
                                       accepted |-> arg.accepted])
    /\ UNCHANGED <<pipeVars, calc>>

\* recordLogin after a failed automatic login: the password is forgotten
ForgetPassword(s, h) ==
    Mutate([s EXCEPT !.session = FALSE,
                     !.savedCredentials = Credentials(FALSE, FALSE),
                     !.handlers[h].loginFailed = TRUE],
           h, "forget", RecordLoginMutator(FALSE, FALSE, FALSE))

\* tryRestoreSession after a failed automatic login: the session is unset,
\* 'savedCredentials' is posted and the restore is over
RestoreFails(s, h) ==
    RestoreSettles(Ended([s EXCEPT !.session = FALSE,
                                   !.handlers[h].loginFailed = TRUE],
                         h, "done"))

\* tryRestoreSession has read the session file
RestoreReadDone(h) ==
    /\ conc.op = "session" /\ conc.handlers[h].pc = "restoreRead"
    /\ conc' =
          IF conc.file = None
          THEN RestoreSettles(Ended(conc, h, "done"))
          ELSE LET persisted == conc.file.val
                   hash == persisted.rememberPassword /\ persisted.passwordHash
                   read == [conc EXCEPT
                              !.preferredLanguage =
                                  normalizeLanguage(persisted.preferredLanguage),
                              !.savedCredentials =
                                  Credentials(persisted.rememberPassword, hash)]
               IN  IF hash THEN [read EXCEPT !.handlers[h].pc = "action"]
                   ELSE RestoreSettles(Ended(read, h, "done"))
    /\ UNCHANGED <<pipeVars, calc>>

\* the action of the judge script a handler awaits has ended: 'login' for a
\* login and a restore, 'fetch_problemset', 'fetch_problem' and
\* 'fetch_status' for a fetch; the answer of 'fetch_problem' may lack the
\* problem
ActionDone(h, r) ==
    /\ conc.op = "session" /\ conc.handlers[h].pc = "action"
    /\ (r.ok /\ r.value = None) => conc.handlers[h].kind = "fetchProblem"
    /\ LET kind == conc.handlers[h].kind
           arg == conc.handlers[h].arg
       IN  conc' =
             IF kind = "login"
             THEN IF r.ok
                  THEN Mutate([conc EXCEPT
                                 !.session = TRUE,
                                 !.savedCredentials =
                                     Credentials(arg.remember, arg.remember)],
                              h, "own",
                              RecordLoginMutator(arg.remember, arg.remember,
                                                 TRUE))
                  ELSE Ended(conc, h, "failed")
             ELSE IF kind = "restore"
             THEN IF r.ok
                  THEN Mutate([conc EXCEPT
                                 !.session = TRUE,
                                 !.savedCredentials = Credentials(TRUE, TRUE)],
                              h, "record", RecordLoginMutator(TRUE, TRUE, FALSE))
                  ELSE RestoreFails(conc, h)
             ELSE IF ~r.ok
             THEN OperationThrows(conc, h, r.error)
             ELSE IF kind = "fetchStatus"
             THEN Ended(conc, h, "done")
             ELSE IF kind = "fetchProblemset"
             THEN Mutate(conc, h, "own", [type |-> "problemset"])
             ELSE Mutate(conc, h, "own", [type |-> "problem", problemId |-> arg,
                                          data |-> r.value])
    /\ UNCHANGED <<pipeVars, calc>>

\* tryAutoLoginInternal in tryAutoLogin: the 'login' action has ended
AutoLoginDone(h, ok) ==
    /\ conc.op = "session" /\ conc.handlers[h].pc = "autoLogin"
    /\ conc' = IF ok
               THEN Mutate([conc EXCEPT
                              !.session = TRUE,
                              !.savedCredentials = Credentials(TRUE, TRUE)],
                           h, "record", RecordLoginMutator(TRUE, TRUE, FALSE))
               ELSE ForgetPassword(conc, h)
    /\ UNCHANGED <<pipeVars, calc>>

\* handleCreateFile: the directory, the source file and the editor are done
\* with, 'fileCreated' is posted and the language is stored as the preferred
\* one; or one of these steps has thrown
FilesDone(h, ok) ==
    /\ conc.op = "session" /\ conc.handlers[h].pc = "files"
    /\ LET language == normalizeLanguage(conc.handlers[h].arg) IN
       conc' = IF ok
               THEN Mutate([conc EXCEPT !.preferredLanguage = language],
                           h, "own", [type |-> "preferredLanguage",
                                      language |-> language])
               ELSE Ended(conc, h, "failed")
    /\ UNCHANGED <<pipeVars, calc>>

\* mutatePersistedSession: the file has been read, the saved credentials and
\* the mutator are applied, and the write is started
ReadDone(h) ==
    /\ conc.op = "session" /\ conc.handlers[h].pc = "read"
    /\ LET persisted == IF conc.file = None
                        THEN NewPersisted(conc)
                        ELSE WithSavedCredentials(conc.file.val, conc)
       IN  conc' = [conc EXCEPT
                      !.handlers[h].pc = "write",
                      !.handlers[h].persisted =
                          Some(ApplyMutator(conc.handlers[h].mutator, persisted))]
    /\ UNCHANGED <<pipeVars, calc>>

\* writePersistedSession has written the file or failed. A handler's own
\* update ends the handler. After a successful automatic login the promise
\* is cleared and the operations run again, a failed write being a failed
\* login; after the password was forgotten the promise is cleared and the
\* error is thrown, and a failed write rejects the promise, which stays
WriteDone(h, written) ==
    /\ conc.op = "session" /\ conc.handlers[h].pc = "write"
    /\ LET kind == conc.handlers[h].kind
           stage == conc.handlers[h].stage
           s == IF written
                THEN [conc EXCEPT
                        !.file = Some(Snapshot(conc.handlers[h].persisted.val))]
                ELSE conc
       IN  conc' =
             IF stage = "own"
             THEN Ended(s, h, IF written THEN "done" ELSE "failed")
             ELSE IF kind = "restore"
             THEN IF written THEN RestoreSettles(Ended(s, h, "done"))
                  ELSE RestoreFails(s, h)
             ELSE IF stage = "record"
             THEN IF written
                  THEN AutoLoginSettles(
                           Rerun([s EXCEPT !.autoLoginPromise = "unset"], h),
                           TRUE)
                  ELSE ForgetPassword(s, h)
             ELSE AutoLoginSettles(
                      Ended([s EXCEPT !.autoLoginPromise =
                                IF written THEN "unset" ELSE "rejected"],
                            h, "failed"),
                      FALSE)
    /\ UNCHANGED <<pipeVars, calc>>

NextSession ==
    \/ \E h \in Slots, kind \in HandlerKinds :
          \E arg \in HandlerArgs(kind) : StartHandler(h, kind, arg)
    \/ \E h \in Slots : RestoreReadDone(h)
    \/ \E h \in Slots, r \in Results(SessionErrors, {Some("data"), None}) :
          ActionDone(h, r)
    \/ \E h \in Slots, ok \in BOOLEAN : AutoLoginDone(h, ok)
    \/ \E h \in Slots, ok \in BOOLEAN : FilesDone(h, ok)
    \/ \E h \in Slots : ReadDone(h)
    \/ \E h \in Slots, written \in BOOLEAN : WriteDone(h, written)

SpecSession == InitSession /\ [][NextSession]_vars

\* C34 as stated: the file holds a passwordHash only if its rememberPassword
\* is true, and when a login with remember = false or a handler whose
\* automatic login failed ends, the file holds no passwordHash.
C34_HashOnlyWhenRemembered ==
    /\ []((conc.op = "session" /\ conc.file # None
                /\ conc.file.val.passwordHash) =>
             conc.file.val.rememberPassword)
    /\ [][conc.op = "session" =>
            \A h \in Slots :
                (/\ conc.handlers[h].pc \notin {"done", "failed"}
                 /\ conc'.handlers[h].pc \in {"done", "failed"}
                 /\ \/ /\ conc'.handlers[h].kind = "login"
                       /\ ~conc'.handlers[h].arg.remember
                       /\ conc'.handlers[h].pc = "done"
                    \/ conc'.handlers[h].loginFailed) =>
                    (conc'.file = None \/ ~conc'.file.val.passwordHash)]_vars

\* C35 as stated: when a handler that stores the fetched problem set and a
\* handler that stores the preferred language have both finished, the file
\* holds the problem set and that language.
C35_NoLostUpdate ==
    (/\ conc.op = "session" /\ conc.start = "loggedIn" /\ conc.ops = 2
     /\ \E a, b \in Slots :
           /\ conc.handlers[a].kind = "fetchProblemset"
           /\ conc.handlers[a].pc = "done"
           /\ conc.handlers[b].kind = "setPreferredLanguage"
           /\ conc.handlers[b].pc = "done") =>
        /\ conc.file # None
        /\ conc.file.val.problemset # None
        /\ \A b \in Slots :
              conc.handlers[b].kind = "setPreferredLanguage" =>
                  conc.file.val.preferredLanguage =
                      normalizeLanguage(conc.handlers[b].arg)

====
